---- MODULE Spec2Model ----
(***************************************************************************)
(* Model of the UMLS -> JKG graph-construction pipeline                    *)
(*   app/utilities/ubkg_standardize.py  identifier / term standardization  *)
(*   app/classes/umls_reader.py         table ingestion, pair resolution   *)
(*   app/classes/jkg_writer.py          node / edge assembly               *)
(*   app/classes/json_writer.py         JSON output                        *)
(*                                                                         *)
(* Text that the code inspects character by character (code ids, terms)    *)
(* is a sequence of one-character strings; every other field is a string.  *)
(***************************************************************************)
EXTENDS Integers, Sequences, FiniteSets, TLC

VARIABLES
    \* ---- one row of a frame that the ubkg_standardize expressions are applied to
    SAB,          \* column SAB  (source abbreviation)
    CODE,         \* column CODE (code in the source)
    codeid,       \* column codeid
    codeid_in,    \* value of codeid before the last standardize_codeid
    STR,          \* column STR (term)
    STR_in,       \* value of STR before the last standardize_term
    stdpc,        \* which expressions have been applied to the row
    n_std,        \* number of times standardize_codeid has been applied
    \* ---- the run of the pipeline
    umls_dir,     \* the input files: file name -> sequence of rows (lines)
    cfg_pretty,   \* configuration value json_out.pretty
    output_dir,   \* the files of the output directory
    df_concept_concept_rels,   \* UmlsReader.df_concept_concept_rels
    df_forward,                \* frame returned by _get_forward_relationships
    df_concept_code_rels,      \* UmlsReader.df_concept_code_rels
    df_semantic_definitions,   \* UmlsReader.df_semantic_definitions
    list_nodes,   \* list built by the last write_nodes_list
    list_rels,    \* list returned by the last write_rels_list
    calls,        \* the JkgWriter methods called so far, in order
    pc,           \* position in the construction of the UmlsReader
    \* ---- the environment of a run and how the process ends
    cfg_keys,     \* the keys "section.key" that the configuration file defines
    umls_exists,  \* the input files that exist under umls_dir
    io_done,      \* the scans and writes performed so far by the stages of the run
    abort,        \* how the process was terminated (NoAbort while it runs)
    \* ---- calls of get_umls_file and of write_list outside the run
    read_call,    \* arguments of the last get_umls_file call
    df_read,      \* frame returned by the last get_umls_file call
    read_source,  \* content of the source file when the last call was made
    read_scanned, \* frame produced by the scan of the last call
    cleaned_from, \* per cleaned copy: the source content it was made from
    wl_call,      \* arguments of the last write_list call
    prev_run,     \* the two arrays written by the previous run on the same input
    \* ---- a UbkgTimer, its thread and the thread that calls stop()
    refresh_interval,  \* UbkgTimer.refresh_interval, in seconds
    stop_ev,      \* UbkgTimer.stop_ev is set
    pbar,         \* UbkgTimer.pbar: closed or not, its postfix, writes after close()
    timer_pc,     \* position of the timer thread in _timer_loop
    caller_pc,    \* position of the calling thread: at work, or in stop()
    sleep_left,   \* seconds until time.sleep(refresh_interval) returns
    join_left,    \* seconds until thread.join(timeout=1.0) gives up
    elapsed       \* seconds on the clock since the thread took its start time

pipevars == <<umls_dir, cfg_pretty, output_dir, df_concept_concept_rels, df_forward,
              df_concept_code_rels, df_semantic_definitions, list_nodes, list_rels,
              calls, pc>>

stdvars == <<SAB, CODE, codeid, codeid_in, STR, STR_in, stdpc, n_std>>

envvars == <<cfg_keys, umls_exists, io_done, abort>>

callvars == <<read_call, df_read, read_source, read_scanned, cleaned_from, wl_call,
              prev_run>>

timervars == <<refresh_interval, stop_ev, pbar, timer_pc, caller_pc, sleep_left,
               join_left, elapsed>>

vars == <<stdvars, pipevars, envvars, callvars, timervars>>

(***************************************************************************)
(* Bounds                                                                  *)
(***************************************************************************)
MaxIdLen == 3        \* longest raw code id drawn
MaxCodeLen == 3      \* longest CODE drawn
MaxSabLen == 1       \* longest SAB drawn
MaxTermLen == 4      \* longest term drawn
MaxStd == 2          \* standardize_codeid applications on one row
MaxRelRows == 2      \* most lines drawn for MRREL.RRF
MaxDocRows == 2      \* most lines drawn for MRDOC.RRF
MaxConsoRows == 2    \* most lines drawn for MRCONSO.RRF
MaxStyRows == 2      \* most lines drawn for MRSTY.RRF
MaxReadRows == 2     \* most lines drawn for a file read by get_umls_file alone
MaxItems == 2        \* longest list given to write_list
MaxWrites == 2       \* most documents that appending calls put in one file
MaxTime == 7        \* seconds on the clock of a timer

\* null of a text column (a sequence that no text equals)
NULLTEXT == <<"<null>">>

SeqsUpTo(S, n) == UNION {[1..k -> S] : k \in 0..n}

Range(s) == {s[i] : i \in 1..Len(s)}

(***************************************************************************)
(* ubkg_standardize.py                                                     *)
(***************************************************************************)

\* The characters named in the module docstring and replaced by standardize_codeid.
SpecialChars == {",", "/", " ", "<", ">", "+", "*", "&", "#"}

\* create_codeid: SAB_col + ":" + CODE_col
create_codeid(sab, code) ==
    IF sab = NULLTEXT \/ code = NULLTEXT THEN NULLTEXT ELSE sab \o <<":">> \o code

\* (mutant) a split that never finds the separator
str_split_whole(s, by) == <<s>>

\* pl.Expr.str.split(by): the segments of s between occurrences of by
\* (a text without the separator is one segment; "" gives one empty segment).
RECURSIVE str_split(_, _)
str_split(s, by) ==
    IF \A i \in 1..Len(s) : s[i] # by
    THEN <<s>>
    ELSE LET k == CHOOSE i \in 1..Len(s) :
                      /\ s[i] = by
                      /\ \A j \in 1..(i - 1) : s[j] # by
         IN  <<SubSeq(s, 1, k - 1)>> \o str_split(SubSeq(s, k + 1, Len(s)), by)

\* pl.Expr.list.get(index): negative indexes count from the end.
list_get(l, index) == IF index >= 0 THEN l[index + 1] ELSE l[Len(l) + 1 + index]

\* pl.Expr.str.replace(pattern, value, literal=True): n defaults to 1, so only
\* the FIRST occurrence of pattern is replaced.
str_replace(s, pattern, value) ==
    IF \A i \in 1..Len(s) : s[i] # pattern
    THEN s
    ELSE LET k == CHOOSE i \in 1..Len(s) :
                      /\ s[i] = pattern
                      /\ \A j \in 1..(i - 1) : s[j] # pattern
         IN  SubSeq(s, 1, k - 1) \o value \o SubSeq(s, k + 1, Len(s))

\* Replacement of EVERY occurrence of pattern (what str.replace_all does);
\* used to state what the documentation asks of standardize_codeid.
RECURSIVE str_replace_all(_, _, _)
str_replace_all(s, pattern, value) ==
    IF s = <<>> THEN <<>>
    ELSE (IF Head(s) = pattern THEN value ELSE <<Head(s)>>)
         \o str_replace_all(Tail(s), pattern, value)

\* the chain of nine .str.replace calls, in source order
replace_chain(s) ==
    LET r1 == str_replace(s,  ",", <<"_">>)
        r2 == str_replace(r1, "/", <<"_">>)
        r3 == str_replace(r2, " ", <<"_">>)
        r4 == str_replace(r3, "<", <<"_", "_">>)
        r5 == str_replace(r4, ">", <<"_">>)
        r6 == str_replace(r5, "+", <<"-">>)
        r7 == str_replace(r6, "*", <<"-">>)
        r8 == str_replace(r7, "&", <<".">>)
        r9 == str_replace(r8, "#", <<".">>)
    IN  r9

\* (mutant) standardize_codeid that keeps the second segment instead of the last
standardize_codeid_second(id) ==
    IF id = NULLTEXT THEN NULLTEXT
    ELSE LET parts == str_split(id, ":")
         IN  replace_chain(list_get(parts, 0) \o <<":">>
                           \o list_get(parts, IF Len(parts) > 1 THEN 1 ELSE 0))

\* standardize_codeid: split(':').get(0) + ':' + split(':').get(-1), then the
\* replace chain.  A null id stays null.
standardize_codeid(id) ==
    IF id = NULLTEXT THEN NULLTEXT
    ELSE LET parts == str_split(id, ":")
         IN  replace_chain(list_get(parts, 0) \o <<":">> \o list_get(parts, -1))

\* The character class [a-zA-Z0-9._-] of the pattern in standardize_term.
Lower == {"a","b","c","d","e","f","g","h","i","j","k","l","m",
          "n","o","p","q","r","s","t","u","v","w","x","y","z"}
Upper == {"A","B","C","D","E","F","G","H","I","J","K","L","M",
          "N","O","P","Q","R","S","T","U","V","W","X","Y","Z"}
Digit == {"0","1","2","3","4","5","6","7","8","9"}
CurieClass == Lower \cup Upper \cup Digit \cup {".", "_", "-"}

\* One step of the automaton of  ^[a-zA-Z0-9._-]+:[a-zA-Z0-9._-]+$
\*   "s0" at ^, "s1" inside the first +, "s2" just after ':',
\*   "s3" inside the second + (the only state in which $ can match), "dead".
curie_step(q, c) ==
    CASE q = "s0" -> IF c \in CurieClass THEN "s1" ELSE "dead"
      [] q = "s1" -> IF c \in CurieClass THEN "s1" ELSE IF c = ":" THEN "s2" ELSE "dead"
      [] q = "s2" -> IF c \in CurieClass THEN "s3" ELSE "dead"
      [] q = "s3" -> IF c \in CurieClass THEN "s3" ELSE "dead"
      [] OTHER    -> "dead"

RECURSIVE curie_run(_, _)
curie_run(q, s) == IF s = <<>> THEN q ELSE curie_run(curie_step(q, Head(s)), Tail(s))

\* (mutant) the pattern without its $ anchor: a prefix of the term may match
str_contains_curie_unanchored(s) ==
    \E n \in 0..Len(s) : curie_run("s0", SubSeq(s, 1, n)) = "s3"

\* pl.Expr.str.contains(pattern): ^ and $ are the ends of the whole text
\* (the regex engine has no multi-line mode here and $ does not match before
\* a trailing line feed).
str_contains_curie(s) == curie_run("s0", s) = "s3"

\* standardize_term: when(contains(pattern)).then(term + ":").otherwise(term)
standardize_term(term) ==
    IF term = NULLTEXT THEN NULLTEXT
    ELSE IF str_contains_curie(term) THEN term \o <<":">> ELSE term

(***************************************************************************)
(* Frames (polars DataFrames): a frame is a sequence of rows, a row is a   *)
(* record column -> value.                                                 *)
(***************************************************************************)

\* null of a string column
NULL == "<null>"

\* Byte-wise (UTF-8) order of the strings that the code compares or sorts:
\* upper-case letters sort before '_' and lower-case letters.
StrOrder == <<"MSHFRE", "RO", "SNOMEDCT_US",
              "has_nerve_supply", "nerve_supply_of", "part_of">>

StrRank(x) == CHOOSE i \in 1..Len(StrOrder) : StrOrder[i] = x

\* pl.col(a) < pl.col(b) on two non-null strings
StrLess(a, b) == StrRank(a) < StrRank(b)

\* order used by sort(): nulls first, then ascending
SortLeq(a, b) == a = NULL \/ (b # NULL /\ StrRank(a) <= StrRank(b))

RECURSIVE Flatten(_)
Flatten(ss) == IF ss = <<>> THEN <<>> ELSE Head(ss) \o Flatten(Tail(ss))

\* all orders of the rows of a frame
Orders(df) == {[i \in 1..Len(df) |-> df[p[i]]] : p \in Permutations(1..Len(df))}

\* (mutant) unique() that keeps every row
unique_keep_all(df) == df

\* DataFrame.unique() / LazyFrame.unique(): one row per distinct row.  polars
\* leaves the order of the result unspecified (maintain_order is not set); this
\* operator gives the rows, and the actions draw their order with Orders
\* wherever a later step can observe it.
unique(df) ==
    LET firsts == {i \in 1..Len(df) : \A j \in 1..(i - 1) : df[j] # df[i]}
    IN  [k \in 1..Cardinality(firsts) |->
            df[CHOOSE i \in firsts : Cardinality({j \in firsts : j <= i}) = k]]

\* DataFrame.select(cols)
select(df, cols) == [i \in 1..Len(df) |-> [c \in cols |-> df[i][c]]]

\* DataFrame.sort(col): ascending, nulls first
RECURSIVE sort(_, _)
sort(df, col) ==
    IF df = <<>> THEN <<>>
    ELSE LET rest == sort(Tail(df), col)
             h == Head(df)
             n == Cardinality({i \in 1..Len(rest) :
                                 ~SortLeq(h[col], rest[i][col])})
         IN  SubSeq(rest, 1, n) \o <<h>> \o SubSeq(rest, n + 1, Len(rest))

\* rows of the right frame that join a left key (a null key joins nothing)
join_matches(right, right_on, k) ==
    SelectSeq(right, LAMBDA r : k # NULL /\ r[right_on] = k)

\* a joined row: the left columns and the right columns but the right key
join_row(l, r, right_on) == l @@ [c \in (DOMAIN r) \ {right_on} |-> r[c]]

\* DataFrame.join(how='inner'), rows in the order of the left frame
inner_join(left, right, left_on, right_on) ==
    Flatten([i \in 1..Len(left) |->
        LET ms == join_matches(right, right_on, left[i][left_on])
        IN  [j \in 1..Len(ms) |-> join_row(left[i], ms[j], right_on)]])

\* DataFrame.join(how='left'): a left row without a match is kept once, with
\* nulls (the row right_nulls) in the right columns
left_join(left, right, left_on, right_on, right_nulls) ==
    Flatten([i \in 1..Len(left) |->
        LET ms == join_matches(right, right_on, left[i][left_on])
        IN  IF ms = <<>>
            THEN <<join_row(left[i], right_nulls, right_on)>>
            ELSE [j \in 1..Len(ms) |-> join_row(left[i], ms[j], right_on)]])

(***************************************************************************)
(* umls_reader.py: get_umls_file                                           *)
(***************************************************************************)

\* configuration section [columns]: the declared columns of each file
\* (the columns of the UMLS release that the pipeline touches)
columns ==
    [MRREL   |-> {"CUI1", "REL", "CUI2", "RELA", "SAB", "SUPPRESS"},
     MRSAB   |-> {"VSAB", "RSAB", "SON", "SRL", "TTYL", "LAT", "CURVER"},
     MRDOC   |-> {"DOCKEY", "VALUE", "TYPE", "EXPL"},
     MRCONSO |-> {"CUI", "LAT", "TS", "STT", "ISPREF", "AUI", "SAB", "TTY",
                  "CODE", "STR", "SUPPRESS"},
     MRDEF   |-> {"AUI", "DEF", "SUPPRESS"},
     MRSTY   |-> {"CUI", "STY"},
     SRDEF   |-> {"RT", "UI", "STY_RL", "DEF"}]

\* the columns whose values are modelled character by character
text_columns ==
    [MRREL |-> {}, MRSAB |-> {}, MRDOC |-> {}, MRSTY |-> {}, SRDEF |-> {},
     MRCONSO |-> {"SAB", "CODE", "STR"},
     MRDEF   |-> {"DEF"}]

\* n_rows=None
NoLimit == -1

\* n_rows of the MRREL read in _get_concept_concept_rels
N_ROWS_MRREL == 1000

\* pl.scan_csv(ufile, separator='|', new_columns=listcol, n_rows=n_rows):
\* the first n_rows lines; an empty field is read as null.
scan_csv(ufile, filename, n_rows) ==
    LET n == IF n_rows = NoLimit \/ n_rows > Len(ufile) THEN Len(ufile) ELSE n_rows
    IN  [i \in 1..n |->
            [c \in columns[filename] |->
                IF c \in text_columns[filename]
                THEN (IF ufile[i][c] = <<>> THEN NULLTEXT ELSE ufile[i][c])
                ELSE (IF ufile[i][c] = "" THEN NULL ELSE ufile[i][c])]]

\* (mutant) the filters applied without the test that the file has the column:
\* a filter on a column that the frame does not have yields no frame
get_umls_file_unguarded(ufile, filename, suppress, english, curver, n_rows, cols) ==
    LET listcol == columns[filename]
        ldf0 == unique(scan_csv(ufile, filename, n_rows))
        ldf1 == IF suppress
                THEN SelectSeq(ldf0, LAMBDA r : "SUPPRESS" \in listcol
                                                /\ r.SUPPRESS # NULL /\ r.SUPPRESS # "O")
                ELSE ldf0
        ldf2 == IF english
                THEN SelectSeq(ldf1, LAMBDA r : "LAT" \in listcol /\ r.LAT = "ENG")
                ELSE ldf1
        ldf3 == IF curver
                THEN SelectSeq(ldf2, LAMBDA r : "CURVER" \in listcol /\ r.CURVER = "Y")
                ELSE ldf2
    IN  select(ldf3, cols)

\* get_umls_file, from the scan on (ufile is the content of the file that is
\* scanned: the source file, or its cleaned copy).  A comparison with a null
\* is null, and filter() drops the row.
get_umls_file(ufile, filename, suppress, english, curver, n_rows, cols) ==
    LET listcol == columns[filename]
        checksuppress == suppress /\ "SUPPRESS" \in listcol
        checkenglish == english /\ "LAT" \in listcol
        checkcurver == curver /\ "CURVER" \in listcol
        ldf0 == unique(scan_csv(ufile, filename, n_rows))
        ldf1 == IF checksuppress
                THEN SelectSeq(ldf0, LAMBDA r : r.SUPPRESS # NULL /\ r.SUPPRESS # "O")
                ELSE ldf0
        ldf2 == IF checkenglish
                THEN SelectSeq(ldf1, LAMBDA r : r.LAT = "ENG")
                ELSE ldf1
        ldf3 == IF checkcurver
                THEN SelectSeq(ldf2, LAMBDA r : r.CURVER = "Y")
                ELSE ldf2
    IN  select(ldf3, cols)

\* line.replace('"', '') on every line of a file
clean_lines(dirtyfile, filename) ==
    [i \in 1..Len(dirtyfile) |->
        [c \in columns[filename] |->
            IF c \in text_columns[filename]
            THEN SelectSeq(dirtyfile[i][c], LAMBDA ch : ch # "\"")
            ELSE dirtyfile[i][c]]]

\* _get_clean_file: the content of the cleaned file that is scanned; an
\* existing cleaned copy in the output directory is used as it is
clean_file_content(outdir, dirtyfile, filename) ==
    IF filename \in outdir.exists THEN outdir.content[filename]
    ELSE clean_lines(dirtyfile, filename)

\* the output directory after _get_clean_file
clean_file_written(outdir, dirtyfile, filename) ==
    IF filename \in outdir.exists THEN outdir
    ELSE [exists  |-> outdir.exists \cup {filename},
          content |-> [outdir.content EXCEPT ![filename] = clean_lines(dirtyfile, filename)]]

(***************************************************************************)
(* The configuration lookups and file operations of get_umls_file, in the  *)
(* order of the code, and the ways in which they terminate the process     *)
(***************************************************************************)

\* the input files
FileNames == {"MRREL", "MRSAB", "MRDOC", "MRCONSO", "MRDEF", "MRSTY", "SRDEF"}

\* the files that the callers read with clean_file=True
CleanedNames == {"MRCONSO", "MRDEF"}

\* the keys that the code looks up in the configuration file
ConfigKeys ==
    {"directories.umls_dir", "directories.output_dir", "json_out.output_filename",
     "json_out.pretty", "json_out.indent"}
    \cup {"columns." \o f : f \in FileNames}
    \cup {"rowsizes." \o f : f \in FileNames}

\* the path of an input file below umls_dir: the Semantic Network files are
\* under NET, the Metathesaurus files under META with the extension RRF
resolved_path(filename) ==
    IF filename = "SRDEF" THEN "NET/" \o filename ELSE "META/" \o filename \o ".RRF"

\* a step of the code that can terminate the process or that touches a file
step(op, on) == [op |-> op, on |-> on]

\* self.cfg.get_value(section, key)
get_value(section, key) == step("get_value", section \o "." \o key)

\* (mutant) _get_clean_file without the test for an existing cleaned copy
clean_file_steps_always(filename, outdir) ==
    << get_value("directories", "umls_dir"), get_value("directories", "output_dir"),
       step("open", filename), step("write_clean", filename) >>

\* the steps of _get_clean_file: two lookups; without a cleaned copy, the source
\* is opened (to count its lines) and the cleaned copy is written
clean_file_steps(filename, outdir) ==
    << get_value("directories", "umls_dir"), get_value("directories", "output_dir") >>
    \o (IF filename \in outdir.exists THEN <<>>
        ELSE << step("open", filename), step("write_clean", filename) >>)

\* the steps of get_umls_file(filename, n_rows=..., clean_file=...)
read_steps(filename, n_rows, clean_file, outdir) ==
    << get_value("directories", "umls_dir") >>
    \o (IF n_rows = NoLimit
        THEN << step("getsize", filename), get_value("rowsizes", filename) >>
        ELSE <<>>)
    \o << get_value("columns", filename) >>
    \o (IF clean_file THEN clean_file_steps(filename, outdir) ELSE <<>>)
    \o << step(IF clean_file THEN "scan_clean" ELSE "scan", filename) >>

\* the process runs
NoAbort == [how |-> "none", what |-> "none", path |-> "none"]

\* what a step does to the process with the configuration keys cfg and the
\* input files exists:
\*   get_value on a missing key logs the key and calls exit(1);
\*   os.path.getsize and open on a missing file raise FileNotFoundError outside
\*   the try block of get_umls_file: the exception, which carries the path,
\*   is not caught and terminates the process;
\*   pl.scan_csv on a missing file raises FileNotFoundError inside the try
\*   block: the handler logs the path and calls exit(1).
step_abort(st, cfg, exists) ==
    IF st.op = "get_value" /\ st.on \notin cfg
    THEN [how |-> "exit", what |-> "config", path |-> st.on]
    ELSE IF st.op \in {"getsize", "open"} /\ st.on \notin exists
    THEN [how |-> "uncaught", what |-> "not_found", path |-> resolved_path(st.on)]
    ELSE IF st.op = "scan" /\ st.on \notin exists
    THEN [how |-> "exit", what |-> "not_found", path |-> resolved_path(st.on)]
    ELSE NoAbort

\* the number of steps that are completed: all, or those before the first
\* step that terminates the process
completed(steps, cfg, exists) ==
    LET bad == {i \in 1..Len(steps) : step_abort(steps[i], cfg, exists) # NoAbort}
    IN  IF bad = {} THEN Len(steps)
        ELSE (CHOOSE i \in bad : \A j \in bad : i <= j) - 1

\* how a sequence of steps ends
steps_abort(steps, cfg, exists) ==
    LET n == completed(steps, cfg, exists)
    IN  IF n = Len(steps) THEN NoAbort ELSE step_abort(steps[n + 1], cfg, exists)

\* the scans and writes among the completed steps
io_of(steps, cfg, exists) ==
    {steps[i] : i \in {j \in 1..completed(steps, cfg, exists) :
                          steps[j].op \in {"scan", "scan_clean", "write_clean",
                                           "write_csv", "write_json"}}}

\* open(cleanfile, "w") and the writes of the cleaned lines
write_clean(outdir, dirtyfile, filename) ==
    [exists  |-> outdir.exists \cup {filename},
     content |-> [outdir.content EXCEPT ![filename] = clean_lines(dirtyfile, filename)]]

\* the output directory after the completed steps that write a cleaned copy
cleaned_by(steps, cfg, exists, outdir, dir) ==
    LET done == io_of(steps, cfg, exists)
        od1 == IF step("write_clean", "MRCONSO") \in done
               THEN write_clean(outdir, dir.MRCONSO, "MRCONSO") ELSE outdir
    IN  IF step("write_clean", "MRDEF") \in done
        THEN write_clean(od1, dir.MRDEF, "MRDEF") ELSE od1

(***************************************************************************)
(* umls_reader.py: _get_forward_relationships                              *)
(***************************************************************************)

\* rows of MRDOC that declare the inverse of a relationship
inverse_rel_pairs(df_mrdoc) ==
    SelectSeq(df_mrdoc, LAMBDA r : r.DOCKEY = "RELA" /\ r.TYPE = "rela_inverse")

\* the pair identifier: when(VALUE < EXPL).then(VALUE + "~" + EXPL)
\*                      .otherwise(EXPL + "~" + VALUE)
\* (a null operand makes the comparison null, which selects otherwise(), and
\* the concatenation with a null is null)
pair_group(r) ==
    IF r.VALUE = NULL \/ r.EXPL = NULL THEN NULL
    ELSE IF StrLess(r.VALUE, r.EXPL) THEN r.VALUE \o "~" \o r.EXPL
         ELSE r.EXPL \o "~" \o r.VALUE

\* the rows of one group, in frame order
group_rows(df, g) == SelectSeq(df, LAMBDA r : pair_group(r) = g)

\* the group keys, in the order of their first row
group_keys(df) == unique([i \in 1..Len(df) |-> pair_group(df[i])])

\* pl.col("VALUE").sort().first(): nulls sort first
sort_first(rows) ==
    CHOOSE v \in {rows[i].VALUE : i \in 1..Len(rows)} :
        \A j \in 1..Len(rows) : SortLeq(v, rows[j].VALUE)

\* (mutant) pl.col("VALUE").sort().last() replaced by the first
sort_last_as_first(rows) == sort_first(rows)

\* pl.col("VALUE").sort().last()
sort_last(rows) ==
    CHOOSE v \in {rows[i].VALUE : i \in 1..Len(rows)} :
        \A j \in 1..Len(rows) : SortLeq(rows[j].VALUE, v)

\* df_forward: group_by("pair_group").agg(VALUE.sort().last(), DOCKEY.last(),
\* TYPE.last(), EXPL.last()), one row per group.  The groups are listed in the
\* order of their first row: the order of the MRDOC frame is drawn by the
\* caller, and the join that consumes df_forward is followed by unique(), so
\* no step observes any further reordering of the groups.
forward_frame(df_pairs) ==
    LET keys == group_keys(df_pairs)
    IN  [k \in 1..Len(keys) |->
            LET rows == group_rows(df_pairs, keys[k])
            IN  [pair_group |-> keys[k],
                 VALUE  |-> sort_last(rows),
                 DOCKEY |-> rows[Len(rows)].DOCKEY,
                 TYPE   |-> rows[Len(rows)].TYPE,
                 EXPL   |-> rows[Len(rows)].EXPL]]

\* df_inverse.select('VALUE').sort('VALUE'): the content of
\* inverse_relationships.csv
inverse_csv(df_pairs) ==
    LET keys == group_keys(df_pairs)
    IN  sort([k \in 1..Len(keys) |->
                 [VALUE |-> sort_first(group_rows(df_pairs, keys[k]))]], "VALUE")

\* a row of nulls in the columns of df_forward
forward_nulls ==
    [pair_group |-> NULL, VALUE |-> NULL, DOCKEY |-> NULL, TYPE |-> NULL, EXPL |-> NULL]

(***************************************************************************)
(* umls_reader.py: the frames built by UmlsReader.__init__                 *)
(***************************************************************************)

colrels == {"CUI1", "CUI2", "REL", "RELA", "SAB"}

\* df_mrrel with the column rel_label: RELA if not null, else REL
mrrel_frame(dir) ==
    LET df == get_umls_file(dir.MRREL, "MRREL", TRUE, TRUE, TRUE, N_ROWS_MRREL, colrels)
    IN  [i \in 1..Len(df) |->
            df[i] @@ [rel_label |-> IF df[i].RELA = NULL THEN df[i].REL ELSE df[i].RELA]]

\* (mutant) df_mrsab without the language and version filters
mrsab_frame_all_sources(dir) ==
    get_umls_file(dir.MRSAB, "MRSAB", TRUE, FALSE, FALSE, NoLimit, {"RSAB", "LAT"})

\* df_mrsab: the current English-language sources
mrsab_frame(dir) ==
    get_umls_file(dir.MRSAB, "MRSAB", TRUE, TRUE, TRUE, NoLimit, {"RSAB", "LAT"})

\* df_rel before pair resolution: the relationships of English-language sources
rels_of_english_sabs(dir) ==
    unique(inner_join(mrrel_frame(dir), mrsab_frame(dir), "SAB", "RSAB"))

\* (mutant) pair resolution with an inner join on the forward relationships
resolve_pairs_inner(df_rel, fwd) ==
    select(unique(inner_join(df_rel, fwd, "RELA", "VALUE")),
           colrels \cup {"rel_label"})

\* pair resolution: df_rel.join(df_forward, how='left', left_on='RELA',
\* right_on='VALUE').unique().select(colrels)
resolve_pairs(df_rel, fwd) ==
    select(unique(left_join(df_rel, fwd, "RELA", "VALUE", forward_nulls)),
           colrels \cup {"rel_label"})

col_conso == {"STR", "SAB", "CODE", "TTY", "CUI", "AUI", "ISPREF", "STT", "TS"}
col_def == {"AUI", "DEF"}

\* _get_concept_code_rels from the two cleaned files on
concept_code_rels(clean_mrconso, clean_mrdef) ==
    LET df_mrconso == get_umls_file(clean_mrconso, "MRCONSO", TRUE, TRUE, TRUE,
                                    NoLimit, col_conso)
        df_mrdef == get_umls_file(clean_mrdef, "MRDEF", TRUE, TRUE, TRUE,
                                  NoLimit, col_def)
        df == left_join(df_mrconso, df_mrdef, "AUI", "AUI",
                        [c \in col_def |-> IF c = "DEF" THEN NULLTEXT ELSE NULL])
    IN  [i \in 1..Len(df) |->
            [df[i] EXCEPT !.STR = standardize_term(df[i].STR)]
            @@ [codeid |-> standardize_codeid(create_codeid(df[i].SAB, df[i].CODE))]]

(***************************************************************************)
(* jkg_writer.py: the node and relationship lists                          *)
(***************************************************************************)

\* f"UMLS:{value}": Python formats None as the text None
fstring_umls(v) == "UMLS:" \o (IF v = NULL THEN "None" ELSE v)

\* row["TTYL"].split(","), for the TTYL values of the modelled MRSAB files
ttyl_split == [x \in {"PT,SY"} |-> <<"PT", "SY">>]

\* the two hard-coded Source nodes
fixed_sources ==
    << [labels |-> <<"Source">>,
        properties |-> [id |-> "UMLS:UMLS", name |-> "Unified Medical Language System",
                        sab |-> "UMLS"]],
       [labels |-> <<"Source">>,
        properties |-> [id |-> "UMLS:NDC", name |-> "National Drug Codes",
                        sab |-> "NDC"]] >>

\* _get_source_node_list, from the sorted MRSAB frame on
source_node_list(rows) ==
    fixed_sources \o
    [i \in 1..Len(rows) |->
        [labels |-> <<"Source">>,
         properties |-> [id   |-> fstring_umls(rows[i].VSAB),
                         name |-> rows[i].SON,
                         sab  |-> rows[i].RSAB,
                         srl  |-> rows[i].SRL,
                         ttyl |-> IF rows[i].TTYL # NULL /\ rows[i].TTYL # ""
                                  THEN ttyl_split[rows[i].TTYL] ELSE <<>>]]]

\* _get_semantic_node_label_list
semantic_node_label_list(df_semdef) ==
    LET rows == SelectSeq(df_semdef, LAMBDA r : r.RT = "STY")
    IN  [i \in 1..Len(rows) |->
            [labels |-> <<"Node_Label">>,
             properties |-> [id |-> fstring_umls(rows[i].UI),
                             def |-> rows[i]["DEF"],
                             node_label |-> rows[i].STY_RL,
                             sab |-> "UMLS"]]]

\* (mutant) the labels of all rows, sorted, without unique()
rel_label_list_all_rows(df_rels) ==
    LET rows == sort(select(df_rels, {"rel_label"}), "rel_label")
    IN  [i \in 1..Len(rows) |->
            [labels |-> <<"Rel_Label">>,
             properties |-> [id |-> fstring_umls(rows[i].rel_label),
                             def |-> rows[i].rel_label,
                             rel_label |-> rows[i].rel_label,
                             sab |-> "UMLS"]]]

\* _get_rel_label_list: select('rel_label').unique().sort('rel_label')
rel_label_list(df_rels) ==
    LET rows == sort(unique(select(df_rels, {"rel_label"})), "rel_label")
    IN  [i \in 1..Len(rows) |->
            [labels |-> <<"Rel_Label">>,
             properties |-> [id |-> fstring_umls(rows[i].rel_label),
                             def |-> rows[i].rel_label,
                             rel_label |-> rows[i].rel_label,
                             sab |-> "UMLS"]]]

\* (mutant) the labels without the leading "Concept"
concept_labels_without_concept(df_mrsty) ==
    LET df == [i \in 1..Len(df_mrsty) |->
                  [df_mrsty[i] EXCEPT !.STY = IF @ = "" THEN NULL ELSE @]]
        cuis == unique([i \in 1..Len(df) |-> df[i].CUI])
    IN  [k \in 1..Len(cuis) |->
            LET rows == SelectSeq(df, LAMBDA r : r.CUI = cuis[k])
                sty == [j \in 1..Len(rows) |-> rows[j].STY]
            IN  [CUI |-> cuis[k], STY |-> sty, labels |-> sty]]

\* _get_concept_labels_list, from the MRSTY frame on: an empty STY becomes
\* null; group_by("CUI", maintain_order=True).agg(STY); labels is "Concept"
\* followed by the aggregated list
concept_labels_list(df_mrsty) ==
    LET df == [i \in 1..Len(df_mrsty) |->
                  [df_mrsty[i] EXCEPT !.STY = IF @ = "" THEN NULL ELSE @]]
        cuis == unique([i \in 1..Len(df) |-> df[i].CUI])
    IN  [k \in 1..Len(cuis) |->
            LET rows == SelectSeq(df, LAMBDA r : r.CUI = cuis[k])
                sty == [j \in 1..Len(rows) |-> rows[j].STY]
            IN  [CUI |-> cuis[k], STY |-> sty, labels |-> <<"Concept">> \o sty]]

\* the rows of df_concept_code_rels that give a preferred term
preferred_terms(df) ==
    unique(SelectSeq(df, LAMBDA r : r.ISPREF = "Y" /\ r.STT = "PF" /\ r.TS = "P"))

\* (mutant) the concept rows from a left join with the labels
concept_rows_left(df_code_rels, dflabels) ==
    left_join(preferred_terms(df_code_rels), dflabels, "CUI", "CUI",
              [CUI |-> NULL, STY |-> <<>>, labels |-> <<>>])

\* the joined frame of _get_concept_nodes_list:
\* df.join(dflabels, how='inner', on='CUI')
concept_rows(df_code_rels, dflabels) ==
    inner_join(preferred_terms(df_code_rels), dflabels, "CUI", "CUI")

\* _get_concept_nodes_list, from the joined rows on
concept_nodes_list(rows) ==
    [i \in 1..Len(rows) |->
        [labels |-> rows[i].labels,
         properties |-> [id |-> fstring_umls(rows[i].CUI),
                         pref_term |-> rows[i].STR,
                         sab |-> "UMLS"]]]

\* (mutant) the start of the relationship taken from CUI1, the end from CUI2
concept_concept_rel_list_swapped(df_rels) ==
    [i \in 1..Len(df_rels) |->
        [label |-> df_rels[i].rel_label,
         end |-> [properties |-> [id |-> fstring_umls(df_rels[i].CUI2)]],
         properties |-> [sab |-> df_rels[i].SAB],
         start |-> [properties |-> [id |-> fstring_umls(df_rels[i].CUI1)]]]]

\* _get_concept_concept_rel_list
concept_concept_rel_list(df_rels) ==
    [i \in 1..Len(df_rels) |->
        [label |-> df_rels[i].rel_label,
         end |-> [properties |-> [id |-> fstring_umls(df_rels[i].CUI1)]],
         properties |-> [sab |-> df_rels[i].SAB],
         start |-> [properties |-> [id |-> fstring_umls(df_rels[i].CUI2)]]]]

(***************************************************************************)
(* json_writer.py: write_list.  The text written to the file is a sequence *)
(* of pieces, one per f.write call.                                        *)
(***************************************************************************)

\* a list item that is a Python str is modelled as a record [pystr |-> text]
isinstance_str(node) == "pystr" \in DOMAIN node

\* the pieces written for the items of list_content: ",\n" before every item
\* but the first; the serialized item (json.dumps, pretty or compact) is only
\* written in the branch of the items that are not str
RECURSIVE item_pieces(_, _, _)
item_pieces(list_content, i, write_pretty) ==
    IF i > Len(list_content) THEN <<>>
    ELSE (IF i > 1 THEN <<[t |-> "comma"]>> ELSE <<>>)
         \o (IF isinstance_str(list_content[i]) THEN <<>>
             ELSE <<[t |-> "item", pretty |-> write_pretty, node |-> list_content[i]]>>)
         \o item_pieces(list_content, i + 1, write_pretty)

\* everything one write_list call writes
written_pieces(list_content, keyname, pretty) ==
    <<[t |-> "open", key |-> keyname]>>
    \o item_pieces(list_content, 1, pretty = "true")
    \o <<[t |-> "close"]>>

\* (mutant) with open(outpath, mode): mode 'w' treated as append
open_and_write_append(old, pieces, mode) == old \o pieces

\* with open(outpath, mode): 'w' truncates the file, 'a' appends to it
open_and_write(old, pieces, mode) == IF mode = "w" THEN pieces ELSE old \o pieces

\* the output directory after write_list on the JSON output file
write_list(outdir, list_content, keyname, mode, pretty) ==
    [exists  |-> outdir.exists \cup {"jkg"},
     content |-> [outdir.content EXCEPT !["jkg"] =
                     open_and_write(@, written_pieces(list_content, keyname, pretty), mode)]]

(***************************************************************************)
(* The steps of the stages of a run                                        *)
(***************************************************************************)

\* JkgWriter.__init__, before the UmlsReader is constructed
jkg_writer_init_steps ==
    << get_value("directories", "output_dir"), get_value("json_out", "output_filename"),
       get_value("json_out", "pretty"), get_value("json_out", "indent") >>

\* the steps of each stage; a stage is named by the method that runs it
stage_steps(stage, outdir) ==
    IF stage = "_get_concept_concept_rels"
    THEN jkg_writer_init_steps
         \o read_steps("MRREL", N_ROWS_MRREL, FALSE, outdir)
         \o read_steps("MRSAB", NoLimit, FALSE, outdir)
         \o read_steps("MRDOC", NoLimit, FALSE, outdir)
         \o << get_value("directories", "output_dir"),
               step("write_csv", "inverse_relationships.csv") >>
    ELSE IF stage = "_get_concept_code_rels"
    THEN read_steps("MRCONSO", NoLimit, TRUE, outdir)
         \o read_steps("MRDEF", NoLimit, TRUE, outdir)
    ELSE IF stage = "_get_semantic_definitions"
    THEN read_steps("SRDEF", NoLimit, FALSE, outdir)
    ELSE IF stage = "write_nodes_list"
    THEN read_steps("MRSAB", NoLimit, FALSE, outdir)
         \o read_steps("MRSTY", NoLimit, FALSE, outdir)
         \o << step("write_json", "nodes") >>
    ELSE << step("write_json", "rels") >>

\* the process runs and the stage runs to its end
stage_completes(stage) ==
    /\ abort = NoAbort
    /\ steps_abort(stage_steps(stage, output_dir), cfg_keys, umls_exists) = NoAbort

\* the scans and writes of a stage
stage_io(stage) == io_of(stage_steps(stage, output_dir), cfg_keys, umls_exists)

\* the stages that can run next
next_stages ==
    IF abort # NoAbort THEN {}
    ELSE IF pc = "new" THEN {"_get_concept_concept_rels"}
    ELSE IF pc = "concept_concept_rels" THEN {"_get_concept_code_rels"}
    ELSE IF pc = "concept_code_rels" THEN {"_get_semantic_definitions"}
    ELSE IF pc = "ready" THEN {"write_nodes_list", "write_rels_list"} \ Range(calls)
    ELSE {}

(***************************************************************************)
(* ubkg_timer.py: UbkgTimer                                                *)
(***************************************************************************)

\* refresh_interval:int=5
DEFAULT_REFRESH_INTERVAL == 5

\* self.thread.join(timeout=1.0)
JOIN_TIMEOUT == 1

\* _fmt_elapsed: <<h, m, s>> stands for h:mm:ss and <<m, s>> for mm:ss
fmt_elapsed(seconds) ==
    LET h == seconds \div 3600
        m == (seconds % 3600) \div 60
        sec == (seconds % 3600) % 60
    IN  IF h # 0 THEN <<h, m, sec>> ELSE <<m, sec>>

\* the display before the first update
NewPbar == [closed |-> FALSE, postfix |-> <<>>, late_writes |-> 0]

\* pbar.set_postfix_str(...) or pbar.refresh(): a write to the display, counted
\* when it comes after pbar.close()
display_write(bar, postfix) ==
    [bar EXCEPT !.postfix = postfix,
                !.late_writes = IF bar.closed THEN @ + 1 ELSE @]

\* no UbkgTimer
TimerIdle ==
    /\ refresh_interval = DEFAULT_REFRESH_INTERVAL
    /\ stop_ev = FALSE
    /\ pbar = NewPbar
    /\ timer_pc = "none"
    /\ caller_pc = "none"
    /\ sleep_left = 0
    /\ join_left = 0
    /\ elapsed = 0

(***************************************************************************)
(* Input files of a run                                                    *)
(***************************************************************************)
CUIs == {"C1", "C2"}
RelaNames == {"has_nerve_supply", "nerve_supply_of"}

RelRow(cui1, cui2, rela, sab, suppress) ==
    [CUI1 |-> cui1, REL |-> "RO", CUI2 |-> cui2, RELA |-> rela, SAB |-> sab,
     SUPPRESS |-> suppress]

DocRow(dockey, value, type, expl) ==
    [DOCKEY |-> dockey, VALUE |-> value, TYPE |-> type, EXPL |-> expl]

ConsoLine(cui, ispref, stt, ts, lat, suppress) ==
    [CUI |-> cui, LAT |-> lat, TS |-> ts, STT |-> stt, ISPREF |-> ispref,
     AUI |-> "A1", SAB |-> <<"G", "O">>, TTY |-> "PT",
     CODE |-> <<"G", "O", ":", "1">>, STR |-> <<"\"", "f", "i", "t", "\"">>,
     SUPPRESS |-> suppress]

\* an English-language atom that is not suppressed
ConsoRow(cui, ispref, stt, ts) == ConsoLine(cui, ispref, stt, ts, "ENG", "N")

StyRow(cui, sty) == [CUI |-> cui, STY |-> sty]

\* lines of MRREL.RRF
RelRows ==
    {RelRow("C1", "C2", rela, sab, sup) :
        rela \in {"", "has_nerve_supply", "nerve_supply_of"},
        sab \in {"SNOMEDCT_US", "MSHFRE"},
        sup \in {"N", "O"}}

\* lines of MRDOC.RRF: inverse declarations in every direction (also of a
\* relationship with itself), the declaration of the empty RELA, and lines that
\* are no inverse declarations of a RELA
DocRows ==
    {DocRow("RELA", v, "rela_inverse", e) : v \in RelaNames, e \in RelaNames}
    \cup {DocRow("RELA", "", "rela_inverse", ""),
          DocRow("RELA", "part_of", "expanded_form", "Part of"),
          DocRow("REL", "RO", "rel_inverse", "RO")}

\* lines of MRCONSO.RRF: atoms that pass the preferred-term filter, atoms
\* that fail one of its three conditions, and preferred atoms that are not
\* English or are suppressed
ConsoRows ==
    {ConsoRow(c, f[1], f[2], f[3]) :
        c \in CUIs,
        f \in {<<"Y", "PF", "P">>, <<"N", "PF", "P">>,
               <<"Y", "VO", "P">>, <<"Y", "PF", "S">>}}
    \cup {ConsoLine(c, "Y", "PF", "P", "FRE", "N") : c \in CUIs}
    \cup {ConsoLine(c, "Y", "PF", "P", "ENG", "O") : c \in CUIs}

\* lines of MRSTY.RRF
StyRows == {StyRow(c, s) : c \in CUIs, s \in {"", "Disease or Syndrome", "Finding"}}

\* the example of the documentation of _get_forward_relationships
SampleMRDOC ==
    << DocRow("RELA", "nerve_supply_of", "rela_inverse", "has_nerve_supply"),
       DocRow("RELA", "has_nerve_supply", "rela_inverse", "nerve_supply_of") >>

SampleMRREL ==
    << RelRow("C1", "C2", "has_nerve_supply", "SNOMEDCT_US", "N"),
       RelRow("C2", "C1", "", "SNOMEDCT_US", "N") >>

SampleMRSAB ==
    << [VSAB |-> "SNOMEDCT_US_2024_03_01", RSAB |-> "SNOMEDCT_US",
        SON |-> "US Edition of SNOMED CT", SRL |-> "9", TTYL |-> "PT,SY",
        LAT |-> "ENG", CURVER |-> "Y"],
       [VSAB |-> "MSHFRE2024", RSAB |-> "MSHFRE",
        SON |-> "Thesaurus Biomedical Francais", SRL |-> "3", TTYL |-> "",
        LAT |-> "FRE", CURVER |-> "Y"] >>

SampleMRCONSO == << ConsoRow("C1", "Y", "PF", "P") >>

SampleMRDEF ==
    << ("AUI" :> "A1") @@ ("DEF" :> <<"a", " ", "\"", "d", "\"">>)
       @@ ("SUPPRESS" :> "N") >>

SampleMRSTY == << StyRow("C1", "Finding") >>

SampleSRDEF ==
    << ("RT" :> "STY") @@ ("UI" :> "T047") @@ ("STY_RL" :> "Disease or Syndrome")
       @@ ("DEF" :> "A condition which alters a normal process") >>

\* a semantic type and a semantic relation
TwoRowSRDEF ==
    SampleSRDEF \o
    << ("RT" :> "RL") @@ ("UI" :> "T186") @@ ("STY_RL" :> "isa")
       @@ ("DEF" :> "The basic hierarchical link") >>

SampleUmlsDir ==
    [MRREL |-> SampleMRREL, MRSAB |-> SampleMRSAB, MRDOC |-> SampleMRDOC,
     MRCONSO |-> SampleMRCONSO, MRDEF |-> SampleMRDEF, MRSTY |-> SampleMRSTY,
     SRDEF |-> SampleSRDEF]

EmptyUmlsDir ==
    [MRREL |-> <<>>, MRSAB |-> <<>>, MRDOC |-> <<>>, MRCONSO |-> <<>>,
     MRDEF |-> <<>>, MRSTY |-> <<>>, SRDEF |-> <<>>]

\* the output directory before the run: no output file and no cleaned copy
EmptyOutputDir ==
    [exists  |-> {},
     content |-> [f \in {"jkg", "inverse_relationships.csv", "MRCONSO", "MRDEF"} |-> <<>>]]

\* runs that vary the inverse declarations, with one relationship in MRREL
InitPairs ==
    /\ \E doc \in SeqsUpTo(DocRows, MaxDocRows), rela \in {"nerve_supply_of", ""} :
          umls_dir = [SampleUmlsDir EXCEPT
                         !.MRDOC = doc,
                         !.MRREL = <<RelRow("C1", "C2", rela, "SNOMEDCT_US", "N")>>]
    /\ cfg_pretty = "false"

\* runs that vary the relationships, with the documented pair declared
InitRels ==
    /\ \E rel \in SeqsUpTo(RelRows, MaxRelRows) :
          umls_dir = [SampleUmlsDir EXCEPT !.MRREL = rel]
    /\ cfg_pretty = "false"

\* runs that vary the atoms of MRCONSO
InitConcepts ==
    /\ \E conso \in SeqsUpTo(ConsoRows, MaxConsoRows),
          sty \in {SampleMRSTY, <<StyRow("C1", "Finding"), StyRow("C2", "")>>} :
          umls_dir = [SampleUmlsDir EXCEPT !.MRCONSO = conso, !.MRSTY = sty]
    /\ cfg_pretty = "false"

\* runs that vary the semantic types of MRSTY
InitLabels ==
    /\ \E sty \in SeqsUpTo(StyRows, MaxStyRows),
          conso \in {SampleMRCONSO,
                      <<ConsoRow("C1", "Y", "PF", "P"), ConsoRow("C2", "Y", "PF", "P")>>} :
          umls_dir = [SampleUmlsDir EXCEPT !.MRCONSO = conso, !.MRSTY = sty]
    /\ cfg_pretty = "false"

\* an atom of C1 from another source, preferred as well
SecondAtom ==
    [ConsoRow("C1", "Y", "PF", "P") EXCEPT !.AUI = "A2", !.SAB = <<"H", "P">>,
                                           !.CODE = <<"1">>, !.STR = <<"f", "i", "t">>]

\* two definitions of the atom A1
TwoDefMRDEF ==
    SampleMRDEF \o
    << ("AUI" :> "A1") @@ ("DEF" :> <<"b">>) @@ ("SUPPRESS" :> "N") >>

\* runs that vary the atoms of one concept and their definitions
InitAtoms ==
    /\ \E conso \in {SampleMRCONSO, SampleMRCONSO \o <<SecondAtom>>},
          mrdef \in {<<>>, SampleMRDEF, TwoDefMRDEF} :
          umls_dir = [SampleUmlsDir EXCEPT !.MRCONSO = conso, !.MRDEF = mrdef]
    /\ cfg_pretty = "false"

\* a line of MRSAB.RRF for a version of SNOMEDCT_US
SabLine(vsab, lat, curver) ==
    [VSAB |-> vsab, RSAB |-> "SNOMEDCT_US", SON |-> "US Edition of SNOMED CT",
     SRL |-> "9", TTYL |-> "PT,SY", LAT |-> lat, CURVER |-> curver]

\* source registries: the sample, one whose only version of SNOMEDCT_US is not
\* current, two versions of which one or both are current, and one in French
SabFiles ==
    {SampleMRSAB,
     <<SabLine("SNOMEDCT_US_2023_09_01", "ENG", "N")>>,
     <<SabLine("SNOMEDCT_US_2023_09_01", "ENG", "N"),
       SabLine("SNOMEDCT_US_2024_03_01", "ENG", "Y")>>,
     <<SabLine("SNOMEDCT_US_2023_09_01", "ENG", "Y"),
       SabLine("SNOMEDCT_US_2024_03_01", "ENG", "Y")>>,
     <<SabLine("SNOMEDCT_US_2024_03_01", "FRE", "Y")>>}

\* relationships in both directions between two concepts, two of them with
\* the same label; and relationships of a registered English source, of a
\* French source and without a source
EdgeFiles ==
    {<<RelRow("C1", "C2", "nerve_supply_of", "SNOMEDCT_US", "N"),
       RelRow("C2", "C1", "nerve_supply_of", "SNOMEDCT_US", "N"),
       RelRow("C1", "C2", "", "SNOMEDCT_US", "N")>>,
     <<RelRow("C1", "C2", "", "", "N"),
       RelRow("C2", "C1", "", "MSHFRE", "N"),
       RelRow("C1", "C1", "", "SNOMEDCT_US", "N")>>}

\* runs that vary the relationships, the source registry and the concepts
InitEdges ==
    /\ \E rel \in EdgeFiles, sab \in SabFiles,
          conso \in {SampleMRCONSO,
                      <<ConsoRow("C1", "Y", "PF", "P"), ConsoRow("C2", "Y", "PF", "P")>>} :
          umls_dir = [SampleUmlsDir EXCEPT
                         !.MRREL = rel, !.MRSAB = sab, !.MRCONSO = conso,
                         !.MRSTY = <<StyRow("C1", "Finding"), StyRow("C2", "Finding")>>]
    /\ cfg_pretty = "false"

\* a relationship file with one line more than the MRREL read takes: the same
\* relationship on every line but the last
LongMRREL ==
    [i \in 1..(N_ROWS_MRREL + 1) |->
        IF i <= N_ROWS_MRREL THEN RelRow("C1", "C2", "", "SNOMEDCT_US", "N")
        ELSE RelRow("C2", "C1", "", "SNOMEDCT_US", "N")]

\* a run on the long relationship file
InitLongFile ==
    /\ umls_dir = [SampleUmlsDir EXCEPT !.MRREL = LongMRREL]
    /\ cfg_pretty = "false"

\* runs that vary the output format and the semantic network
InitFormat ==
    /\ \E srdef \in {SampleSRDEF, TwoRowSRDEF} :
          umls_dir = [SampleUmlsDir EXCEPT !.SRDEF = srdef]
    /\ cfg_pretty \in {"true", "false"}

\* no standardization row
StdIdle ==
    /\ SAB = NULLTEXT /\ CODE = NULLTEXT /\ codeid = NULLTEXT
    /\ codeid_in = NULLTEXT /\ STR = NULLTEXT /\ STR_in = NULLTEXT
    /\ stdpc = "idle" /\ n_std = 0

\* every configuration key is defined and every input file exists
EnvComplete ==
    /\ cfg_keys = ConfigKeys
    /\ umls_exists = FileNames

\* runs with one configuration key or one input file missing
InitFaulty ==
    /\ umls_dir = SampleUmlsDir
    /\ cfg_pretty = "false"
    /\ \/ \E k \in ConfigKeys : cfg_keys = ConfigKeys \ {k} /\ umls_exists = FileNames
       \/ \E f \in FileNames : cfg_keys = ConfigKeys /\ umls_exists = FileNames \ {f}

\* no get_umls_file call
NoCall ==
    [filename |-> "none", suppress |-> FALSE, english |-> FALSE, curver |-> FALSE,
     n_rows |-> NoLimit, clean_file |-> FALSE]

\* no write_list call
NoWrite == [list_content |-> <<>>, keyname |-> "none", mode |-> "none"]

\* no previous run
NoRun == [ran |-> FALSE, nodes |-> <<>>, rels |-> <<>>]

\* no get_umls_file or write_list call outside the run
CallIdle ==
    /\ read_call = NoCall
    /\ df_read = <<>>
    /\ read_source = <<>>
    /\ read_scanned = <<>>
    /\ cleaned_from = [f \in CleanedNames |-> <<>>]
    /\ wl_call = NoWrite
    /\ prev_run = NoRun

Init ==
    /\ \/ /\ \/ InitPairs \/ InitRels \/ InitConcepts \/ InitLabels \/ InitAtoms
             \/ InitEdges \/ InitLongFile \/ InitFormat
          /\ EnvComplete
       \/ InitFaulty
    /\ io_done = {}
    /\ abort = NoAbort
    /\ CallIdle
    /\ output_dir = EmptyOutputDir
    /\ df_concept_concept_rels = <<>>
    /\ df_forward = <<>>
    /\ df_concept_code_rels = <<>>
    /\ df_semantic_definitions = <<>>
    /\ list_nodes = <<>>
    /\ list_rels = <<>>
    /\ calls = <<>>
    /\ pc = "new"
    /\ StdIdle
    /\ TimerIdle

(***************************************************************************)
(* The run: JkgWriter.__init__ constructs the UmlsReader, whose __init__   *)
(* builds three frames; then the two write methods are called, each once,  *)
(* in either order.                                                        *)
(***************************************************************************)

\* UmlsReader.__init__: self.df_concept_concept_rels = self._get_concept_concept_rels()
\* (with _get_forward_relationships, which writes inverse_relationships.csv)
GetConceptConceptRels ==
    /\ stage_completes("_get_concept_concept_rels")
    /\ pc = "new"
    /\ \E df_mrdoc \in Orders(get_umls_file(umls_dir.MRDOC, "MRDOC", TRUE, TRUE, TRUE,
                                            NoLimit, columns.MRDOC)) :
         LET df_inverse_rel_pairs == inverse_rel_pairs(df_mrdoc)
             fwd == forward_frame(df_inverse_rel_pairs)
         IN  \E df_rel \in Orders(resolve_pairs(rels_of_english_sabs(umls_dir), fwd)) :
                /\ df_forward' = fwd
                /\ df_concept_concept_rels' = df_rel
                /\ output_dir' =
                      [exists  |-> output_dir.exists \cup {"inverse_relationships.csv"},
                       content |-> [output_dir.content EXCEPT
                                       !["inverse_relationships.csv"] =
                                           inverse_csv(df_inverse_rel_pairs)]]
    /\ pc' = "concept_concept_rels"
    /\ UNCHANGED <<umls_dir, cfg_pretty, df_concept_code_rels, df_semantic_definitions,
                   list_nodes, list_rels, calls>>
    /\ io_done' = io_done \cup stage_io("_get_concept_concept_rels")
    /\ UNCHANGED <<cfg_keys, umls_exists, abort>>
    /\ UNCHANGED callvars
    /\ UNCHANGED stdvars
    /\ UNCHANGED timervars

\* UmlsReader.__init__: self.df_concept_code_rels = self._get_concept_code_rels()
GetConceptCodeRels ==
    /\ stage_completes("_get_concept_code_rels")
    /\ pc = "concept_concept_rels"
    /\ LET od1 == clean_file_written(output_dir, umls_dir.MRCONSO, "MRCONSO")
           od2 == clean_file_written(od1, umls_dir.MRDEF, "MRDEF")
       IN  /\ df_concept_code_rels' =
                 concept_code_rels(
                     clean_file_content(output_dir, umls_dir.MRCONSO, "MRCONSO"),
                     clean_file_content(od1, umls_dir.MRDEF, "MRDEF"))
           /\ output_dir' = od2
    /\ pc' = "concept_code_rels"
    /\ UNCHANGED <<umls_dir, cfg_pretty, df_concept_concept_rels, df_forward,
                   df_semantic_definitions, list_nodes, list_rels, calls>>
    /\ io_done' = io_done \cup stage_io("_get_concept_code_rels")
    /\ UNCHANGED <<cfg_keys, umls_exists, abort>>
    /\ UNCHANGED callvars
    /\ UNCHANGED stdvars
    /\ UNCHANGED timervars

\* UmlsReader.__init__: self.df_semantic_definitions = self._get_semantic_definitions()
GetSemanticDefinitions ==
    /\ stage_completes("_get_semantic_definitions")
    /\ pc = "concept_code_rels"
    /\ \E df \in Orders(get_umls_file(umls_dir.SRDEF, "SRDEF", TRUE, TRUE, TRUE,
                                      NoLimit, {"RT", "UI", "STY_RL", "DEF"})) :
          df_semantic_definitions' = df
    /\ pc' = "ready"
    /\ UNCHANGED <<umls_dir, cfg_pretty, output_dir, df_concept_concept_rels, df_forward,
                   df_concept_code_rels, list_nodes, list_rels, calls>>
    /\ io_done' = io_done \cup stage_io("_get_semantic_definitions")
    /\ UNCHANGED <<cfg_keys, umls_exists, abort>>
    /\ UNCHANGED callvars
    /\ UNCHANGED stdvars
    /\ UNCHANGED timervars

\* JkgWriter.write_nodes_list
WriteNodesList ==
    /\ stage_completes("write_nodes_list")
    /\ pc = "ready"
    /\ "write_nodes_list" \notin Range(calls)
    /\ \E df_mrsab \in Orders(get_umls_file(umls_dir.MRSAB, "MRSAB", TRUE, TRUE, TRUE,
                                            NoLimit,
                                            {"VSAB", "RSAB", "SON", "SRL", "TTYL"})),
          df_mrsty \in Orders(get_umls_file(umls_dir.MRSTY, "MRSTY", TRUE, TRUE, TRUE,
                                            NoLimit, {"CUI", "STY"})) :
         \E rows \in Orders(concept_rows(df_concept_code_rels,
                                         concept_labels_list(df_mrsty))) :
            LET nodes == source_node_list(sort(df_mrsab, "RSAB"))
                         \o semantic_node_label_list(df_semantic_definitions)
                         \o rel_label_list(df_concept_concept_rels)
                         \o concept_nodes_list(rows)
            IN  /\ list_nodes' = nodes
                /\ output_dir' = write_list(output_dir, nodes, "nodes", "w", cfg_pretty)
    /\ calls' = Append(calls, "write_nodes_list")
    /\ UNCHANGED <<umls_dir, cfg_pretty, df_concept_concept_rels, df_forward,
                   df_concept_code_rels, df_semantic_definitions, list_rels, pc>>
    /\ io_done' = io_done \cup stage_io("write_nodes_list")
    /\ UNCHANGED <<cfg_keys, umls_exists, abort>>
    /\ UNCHANGED callvars
    /\ UNCHANGED stdvars
    /\ UNCHANGED timervars

\* JkgWriter.write_rels_list
WriteRelsList ==
    /\ stage_completes("write_rels_list")
    /\ pc = "ready"
    /\ "write_rels_list" \notin Range(calls)
    /\ LET rels == concept_concept_rel_list(df_concept_concept_rels)
       IN  /\ list_rels' = rels
           /\ output_dir' = write_list(output_dir, rels, "rels", "w", cfg_pretty)
    /\ calls' = Append(calls, "write_rels_list")
    /\ UNCHANGED <<umls_dir, cfg_pretty, df_concept_concept_rels, df_forward,
                   df_concept_code_rels, df_semantic_definitions, list_nodes, pc>>
    /\ io_done' = io_done \cup stage_io("write_rels_list")
    /\ UNCHANGED <<cfg_keys, umls_exists, abort>>
    /\ UNCHANGED callvars
    /\ UNCHANGED stdvars
    /\ UNCHANGED timervars

\* a stage that does not run to its end: a lookup or a file operation
\* terminates the process after the steps before it
Abort ==
    /\ \E stage \in next_stages :
          LET steps == stage_steps(stage, output_dir)
          IN  /\ steps_abort(steps, cfg_keys, umls_exists) # NoAbort
              /\ abort' = steps_abort(steps, cfg_keys, umls_exists)
              /\ io_done' = io_done \cup stage_io(stage)
              /\ output_dir' = cleaned_by(steps, cfg_keys, umls_exists, output_dir, umls_dir)
    /\ UNCHANGED <<umls_dir, cfg_pretty, df_concept_concept_rels, df_forward,
                   df_concept_code_rels, df_semantic_definitions, list_nodes, list_rels,
                   calls, pc>>
    /\ UNCHANGED <<cfg_keys, umls_exists>>
    /\ UNCHANGED callvars
    /\ UNCHANGED stdvars
    /\ UNCHANGED timervars

Next ==
    \/ GetConceptConceptRels
    \/ GetConceptCodeRels
    \/ GetSemanticDefinitions
    \/ WriteNodesList
    \/ WriteRelsList
    \/ Abort

Spec == Init /\ [][Next]_vars

(***************************************************************************)
(* Inputs of the standardization functions                                 *)
(***************************************************************************)
IdAlphabet == {"a", ":"} \cup SpecialChars
CodeAlphabet == {"G", "1", ":", ","}
SabAlphabet == {"G"}
TermAlphabet == {"a", "_", ":", " ", "\n"}

\* the examples of the documentation
ExampleIds == { <<"a", ",", "b", "/", "c", " ", "d">>,
                <<"G", "O", ":", "G", "O", ":", "1", "2", "3", "4", "5">> }
ExampleTerms == { <<"H", "P", ":", "0", "0", "0", "1", "2", "5", "0">>,
                  <<"s", "e", "i", "z", "u", "r", "e", " ",
                    "d", "i", "s", "o", "r", "d", "e", "r">> }

\* a frame whose codeid column already exists
InitRawId ==
    /\ codeid \in SeqsUpTo(IdAlphabet, MaxIdLen) \cup ExampleIds
    /\ SAB = NULLTEXT /\ CODE = NULLTEXT
    /\ STR = NULLTEXT
    /\ stdpc = "created"

\* a frame with SAB and CODE columns, codeid not yet created
InitSabCode ==
    /\ \/ /\ SAB \in SeqsUpTo(SabAlphabet, MaxSabLen)
          /\ CODE \in SeqsUpTo(CodeAlphabet, MaxCodeLen)
       \/ /\ SAB = <<"G", "O">>
          /\ CODE = <<"G", "O", ":", "1", "2", "3", "4", "5">>
    /\ codeid = NULLTEXT
    /\ STR = NULLTEXT
    /\ stdpc = "start"

\* a frame with a term column
InitTerm ==
    /\ STR \in SeqsUpTo(TermAlphabet, MaxTermLen) \cup ExampleTerms
    /\ SAB = NULLTEXT /\ CODE = NULLTEXT /\ codeid = NULLTEXT
    /\ stdpc = "term"

\* no pipeline run
PipeIdle ==
    /\ umls_dir = EmptyUmlsDir
    /\ cfg_pretty = "false"
    /\ output_dir = EmptyOutputDir
    /\ df_concept_concept_rels = <<>>
    /\ df_forward = <<>>
    /\ df_concept_code_rels = <<>>
    /\ df_semantic_definitions = <<>>
    /\ list_nodes = <<>>
    /\ list_rels = <<>>
    /\ calls = <<>>
    /\ pc = "idle"
    /\ EnvComplete
    /\ io_done = {}
    /\ abort = NoAbort
    /\ CallIdle

InitStd ==
    /\ InitRawId \/ InitSabCode \/ InitTerm
    /\ codeid_in = NULLTEXT
    /\ STR_in = NULLTEXT
    /\ n_std = 0
    /\ PipeIdle
    /\ TimerIdle

\* df.with_columns(create_codeid(pl.col('SAB'), pl.col('CODE'), 'codeid'))
CreateCodeid ==
    /\ stdpc = "start"
    /\ codeid' = create_codeid(SAB, CODE)
    /\ stdpc' = "created"
    /\ UNCHANGED <<SAB, CODE, codeid_in, STR, STR_in, n_std>>
    /\ UNCHANGED <<pipevars, envvars, callvars, timervars>>

\* df.with_columns(standardize_codeid('codeid'))
StandardizeCodeid ==
    /\ stdpc \in {"created", "standardized"}
    /\ n_std < MaxStd
    /\ codeid_in' = codeid
    /\ codeid' = standardize_codeid(codeid)
    /\ stdpc' = "standardized"
    /\ n_std' = n_std + 1
    /\ UNCHANGED <<SAB, CODE, STR, STR_in>>
    /\ UNCHANGED <<pipevars, envvars, callvars, timervars>>

\* df.with_columns(standardize_term('STR'))
StandardizeTerm ==
    /\ stdpc = "term"
    /\ STR_in' = STR
    /\ STR' = standardize_term(STR)
    /\ stdpc' = "term_done"
    /\ UNCHANGED <<SAB, CODE, codeid, codeid_in, n_std>>
    /\ UNCHANGED <<pipevars, envvars, callvars, timervars>>

NextStd == CreateCodeid \/ StandardizeCodeid \/ StandardizeTerm

SpecStd == InitStd /\ [][NextStd]_vars

(***************************************************************************)
(* Two runs of the program on the same input files                         *)
(***************************************************************************)

\* the input of the runs: the sample files, or these with another line for
\* the second concept in MRCONSO.RRF and MRSTY.RRF
InitRuns ==
    /\ \/ umls_dir = SampleUmlsDir
       \/ umls_dir = [SampleUmlsDir EXCEPT
                         !.MRCONSO = <<ConsoRow("C1", "Y", "PF", "P"),
                                       ConsoRow("C2", "Y", "PF", "P")>>,
                         !.MRSTY = <<StyRow("C1", "Finding"), StyRow("C2", "Finding")>>]
    /\ cfg_pretty = "false"
    /\ EnvComplete
    /\ io_done = {}
    /\ abort = NoAbort
    /\ CallIdle
    /\ output_dir = EmptyOutputDir
    /\ df_concept_concept_rels = <<>>
    /\ df_forward = <<>>
    /\ df_concept_code_rels = <<>>
    /\ df_semantic_definitions = <<>>
    /\ list_nodes = <<>>
    /\ list_rels = <<>>
    /\ calls = <<>>
    /\ pc = "new"
    /\ StdIdle
    /\ TimerIdle

\* the process has written both arrays and ends; the program is started again
\* on the same input files and the same output directory
RunAgain ==
    /\ abort = NoAbort
    /\ ~prev_run.ran
    /\ Range(calls) = {"write_nodes_list", "write_rels_list"}
    /\ prev_run' = [ran |-> TRUE, nodes |-> list_nodes, rels |-> list_rels]
    /\ df_concept_concept_rels' = <<>>
    /\ df_forward' = <<>>
    /\ df_concept_code_rels' = <<>>
    /\ df_semantic_definitions' = <<>>
    /\ list_nodes' = <<>>
    /\ list_rels' = <<>>
    /\ calls' = <<>>
    /\ pc' = "new"
    /\ io_done' = {}
    /\ UNCHANGED <<umls_dir, cfg_pretty, output_dir>>
    /\ UNCHANGED <<cfg_keys, umls_exists, abort>>
    /\ UNCHANGED <<read_call, df_read, read_source, read_scanned, cleaned_from, wl_call>>
    /\ UNCHANGED stdvars
    /\ UNCHANGED timervars

NextRuns ==
    \/ GetConceptConceptRels
    \/ GetConceptCodeRels
    \/ GetSemanticDefinitions
    \/ WriteNodesList
    \/ WriteRelsList
    \/ RunAgain

SpecRuns == InitRuns /\ [][NextRuns]_vars

(***************************************************************************)
(* A UbkgTimer: the timer thread runs _timer_loop while the thread that    *)
(* constructed the timer works and then calls stop().  A step of a thread  *)
(* takes no time on the clock; the clock advances while the timer thread   *)
(* sleeps or has ended and the caller works, waits in join() or has        *)
(* returned.                                                               *)
(***************************************************************************)

\* UbkgTimer.__init__ has returned: the display exists and the thread is
\* started
InitTimer ==
    /\ refresh_interval \in {0, 1, DEFAULT_REFRESH_INTERVAL}
    /\ stop_ev = FALSE
    /\ pbar = NewPbar
    /\ timer_pc = "start"
    /\ caller_pc = "work"
    /\ sleep_left = 0
    /\ join_left = 0
    /\ elapsed = 0
    /\ PipeIdle
    /\ StdIdle

TimerOthersUnchanged ==
    /\ UNCHANGED <<pipevars, envvars, callvars>>
    /\ UNCHANGED stdvars

\* start = time.perf_counter()
TimerStart ==
    /\ timer_pc = "start"
    /\ timer_pc' = "while"
    /\ elapsed' = 0
    /\ UNCHANGED <<refresh_interval, stop_ev, pbar, caller_pc, sleep_left, join_left>>
    /\ TimerOthersUnchanged

\* while not self.stop_ev.is_set()
TimerWhile ==
    /\ timer_pc = "while"
    /\ timer_pc' = IF stop_ev THEN "final_postfix" ELSE "postfix"
    /\ UNCHANGED <<refresh_interval, stop_ev, pbar, caller_pc, sleep_left, join_left,
                   elapsed>>
    /\ TimerOthersUnchanged

\* self.pbar.set_postfix_str(...), in the loop and after it
TimerSetPostfix ==
    /\ timer_pc \in {"postfix", "final_postfix"}
    /\ pbar' = display_write(pbar, fmt_elapsed(elapsed))
    /\ timer_pc' = IF timer_pc = "postfix" THEN "refresh" ELSE "final_refresh"
    /\ UNCHANGED <<refresh_interval, stop_ev, caller_pc, sleep_left, join_left, elapsed>>
    /\ TimerOthersUnchanged

\* self.pbar.refresh(), in the loop (then time.sleep begins) and after it
\* (then the thread ends)
TimerRefresh ==
    /\ timer_pc \in {"refresh", "final_refresh"}
    /\ pbar' = display_write(pbar, pbar.postfix)
    /\ IF timer_pc = "refresh"
       THEN timer_pc' = "sleep" /\ sleep_left' = refresh_interval
       ELSE timer_pc' = "ended" /\ sleep_left' = sleep_left
    /\ UNCHANGED <<refresh_interval, stop_ev, caller_pc, join_left, elapsed>>
    /\ TimerOthersUnchanged

\* time.sleep(self.refresh_interval) returns
TimerWake ==
    /\ timer_pc = "sleep"
    /\ sleep_left = 0
    /\ timer_pc' = "while"
    /\ UNCHANGED <<refresh_interval, stop_ev, pbar, caller_pc, sleep_left, join_left,
                   elapsed>>
    /\ TimerOthersUnchanged

\* stop(): self.stop_ev.set(), then join begins
StopSet ==
    /\ caller_pc = "work"
    /\ stop_ev' = TRUE
    /\ caller_pc' = "join"
    /\ join_left' = JOIN_TIMEOUT
    /\ UNCHANGED <<refresh_interval, pbar, timer_pc, sleep_left, elapsed>>
    /\ TimerOthersUnchanged

\* stop(): self.thread.join(timeout=1.0) returns, because the thread has
\* ended or because the timeout has passed
StopJoin ==
    /\ caller_pc = "join"
    /\ timer_pc = "ended" \/ join_left = 0
    /\ caller_pc' = "close"
    /\ UNCHANGED <<refresh_interval, stop_ev, pbar, timer_pc, sleep_left, join_left,
                   elapsed>>
    /\ TimerOthersUnchanged

\* stop(): self.pbar.close(), and stop() returns
StopClose ==
    /\ caller_pc = "close"
    /\ pbar' = [pbar EXCEPT !.closed = TRUE]
    /\ caller_pc' = "returned"
    /\ UNCHANGED <<refresh_interval, stop_ev, timer_pc, sleep_left, join_left, elapsed>>
    /\ TimerOthersUnchanged

\* a second passes while no thread has a step to take
Second ==
    /\ elapsed < MaxTime
    /\ timer_pc = "ended" \/ (timer_pc = "sleep" /\ sleep_left > 0)
    /\ caller_pc \in {"work", "returned"} \/ (caller_pc = "join" /\ join_left > 0)
    /\ elapsed' = elapsed + 1
    /\ sleep_left' = IF sleep_left > 0 THEN sleep_left - 1 ELSE 0
    /\ join_left' = IF caller_pc = "join" THEN join_left - 1 ELSE join_left
    /\ UNCHANGED <<refresh_interval, stop_ev, pbar, timer_pc, caller_pc>>
    /\ TimerOthersUnchanged

NextTimer ==
    \/ TimerStart
    \/ TimerWhile
    \/ TimerSetPostfix
    \/ TimerRefresh
    \/ TimerWake
    \/ StopSet
    \/ StopJoin
    \/ StopClose
    \/ Second

SpecTimer == InitTimer /\ [][NextTimer]_vars

(***************************************************************************)
(* Calls of JsonWriter.write_list with any list, key and mode              *)
(***************************************************************************)

\* list items: records (dict) and serialized records (str)
ListItems ==
    {fixed_sources[1], fixed_sources[2],
     [pystr |-> " {\"labels\": [\"Source\"]} "]}

\* the number of documents in the output file
documents_in(content) == Cardinality({i \in 1..Len(content) : content[i].t = "open"})

InitWriteList ==
    /\ cfg_pretty \in {"true", "false"}
    /\ umls_dir = EmptyUmlsDir
    /\ output_dir = EmptyOutputDir
    /\ df_concept_concept_rels = <<>>
    /\ df_forward = <<>>
    /\ df_concept_code_rels = <<>>
    /\ df_semantic_definitions = <<>>
    /\ list_nodes = <<>>
    /\ list_rels = <<>>
    /\ calls = <<>>
    /\ pc = "idle"
    /\ EnvComplete
    /\ io_done = {}
    /\ abort = NoAbort
    /\ CallIdle
    /\ StdIdle
    /\ TimerIdle

\* JsonWriter.write_list(list_content, keyname, mode)
WriteList ==
    /\ \E list_content \in SeqsUpTo(ListItems, MaxItems),
          keyname \in {"nodes", "rels"}, mode \in {"w", "a"} :
          /\ mode = "a" => documents_in(output_dir.content["jkg"]) < MaxWrites
          /\ output_dir' = write_list(output_dir, list_content, keyname, mode, cfg_pretty)
          /\ wl_call' = [list_content |-> list_content, keyname |-> keyname, mode |-> mode]
    /\ UNCHANGED <<umls_dir, cfg_pretty, df_concept_concept_rels, df_forward,
                   df_concept_code_rels, df_semantic_definitions, list_nodes, list_rels,
                   calls, pc>>
    /\ UNCHANGED envvars
    /\ UNCHANGED <<read_call, df_read, read_source, read_scanned, cleaned_from, prev_run>>
    /\ UNCHANGED stdvars
    /\ UNCHANGED timervars

NextWriteList == WriteList

SpecWriteList == InitWriteList /\ [][NextWriteList]_vars

(***************************************************************************)
(* Calls of UmlsReader.get_umls_file with any file name and options, on    *)
(* input files that change between the calls                               *)
(***************************************************************************)

\* lines of MRREL.RRF with the suppression flags of the UMLS (N: not
\* suppressed; O, E: suppressed) and with an empty flag
ReadRelRows ==
    {RelRow("C1", "C2", "has_nerve_supply", "SNOMEDCT_US", sup) :
        sup \in {"N", "O", "E", ""}}

\* lines of MRSAB.RRF in two languages or without language, current and not
ReadSabRows ==
    {[VSAB |-> "V", RSAB |-> "SNOMEDCT_US", SON |-> "S", SRL |-> "0", TTYL |-> "",
      LAT |-> x[1], CURVER |-> x[2]] :
        x \in {<<"ENG", "Y">>, <<"ENG", "N">>, <<"FRE", "Y">>, <<"", "Y">>}}

\* the contents that a source file read with clean_file=True can have
Versions ==
    [MRCONSO |-> {SampleMRCONSO,
                  << ConsoLine("C2", "Y", "PF", "P", "ENG", "O"),
                     ConsoRow("C1", "N", "PF", "P") >>},
     MRDEF   |-> {SampleMRDEF,
                  << ("AUI" :> "A1") @@ ("DEF" :> <<"\"", "b">>) @@ ("SUPPRESS" :> "E") >>}]

\* read_source of a call on a file that does not exist
Missing == << [missing |-> TRUE] >>

\* the variables that no get_umls_file call touches
InitReadOthers ==
    /\ cfg_pretty = "false"
    /\ df_concept_concept_rels = <<>>
    /\ df_forward = <<>>
    /\ df_concept_code_rels = <<>>
    /\ df_semantic_definitions = <<>>
    /\ list_nodes = <<>>
    /\ list_rels = <<>>
    /\ calls = <<>>
    /\ pc = "idle"
    /\ cfg_keys = ConfigKeys
    /\ io_done = {}
    /\ abort = NoAbort
    /\ read_call = NoCall
    /\ df_read = <<>>
    /\ read_source = <<>>
    /\ read_scanned = <<>>
    /\ wl_call = NoWrite
    /\ prev_run = NoRun
    /\ StdIdle
    /\ TimerIdle

\* a directory with the files that are read without clean_file
InitRead ==
    /\ \/ \E rel \in SeqsUpTo(ReadRelRows, MaxReadRows) :
             umls_dir = [SampleUmlsDir EXCEPT !.MRREL = rel, !.MRCONSO = <<>>, !.MRDEF = <<>>]
       \/ \E sab \in SeqsUpTo(ReadSabRows, MaxReadRows) :
             umls_dir = [SampleUmlsDir EXCEPT !.MRSAB = sab, !.MRCONSO = <<>>, !.MRDEF = <<>>]
    /\ umls_exists = FileNames \ CleanedNames
    /\ output_dir = EmptyOutputDir
    /\ cleaned_from = [f \in CleanedNames |-> <<>>]
    /\ InitReadOthers

\* a directory where one file may be missing, with or without a cleaned copy
\* of MRCONSO.RRF left in the output directory by an earlier run
InitClean ==
    /\ \E missing \in {{}, {"MRCONSO"}, {"MRDEF"}, {"MRREL"}, {"SRDEF"}} :
          /\ umls_exists = FileNames \ missing
          /\ umls_dir = [f \in FileNames |->
                            IF f \in missing THEN <<>> ELSE SampleUmlsDir[f]]
    /\ \/ /\ output_dir = EmptyOutputDir
          /\ cleaned_from = [f \in CleanedNames |-> <<>>]
       \/ \E old \in Versions.MRCONSO :
             /\ output_dir = write_clean(EmptyOutputDir, old, "MRCONSO")
             /\ cleaned_from = [f \in CleanedNames |-> IF f = "MRCONSO" THEN old ELSE <<>>]
    /\ InitReadOthers

\* UmlsReader.get_umls_file(filename, suppress, english, curver, n_rows,
\* cols=None, clean_file)
GetUmlsFileCall(filename, suppress, english, curver, n_rows, clean_file) ==
    /\ abort = NoAbort
    /\ LET steps == read_steps(filename, n_rows, clean_file, output_dir)
           ends == steps_abort(steps, cfg_keys, umls_exists)
           od == cleaned_by(steps, cfg_keys, umls_exists, output_dir, umls_dir)
           ufile == IF clean_file THEN od.content[filename] ELSE umls_dir[filename]
       IN  /\ read_call' = [filename |-> filename, suppress |-> suppress,
                            english |-> english, curver |-> curver,
                            n_rows |-> n_rows, clean_file |-> clean_file]
           /\ read_source' = IF filename \in umls_exists THEN umls_dir[filename]
                             ELSE Missing
           /\ abort' = ends
           /\ output_dir' = od
           /\ cleaned_from' =
                  [f \in CleanedNames |->
                      IF /\ f = filename
                         /\ f \notin output_dir.exists
                         /\ step("write_clean", f) \in io_of(steps, cfg_keys, umls_exists)
                      THEN umls_dir[f] ELSE cleaned_from[f]]
           /\ IF ends = NoAbort
              THEN /\ read_scanned' = scan_csv(ufile, filename, n_rows)
                   /\ \E df \in Orders(get_umls_file(ufile, filename, suppress, english,
                                                      curver, n_rows, columns[filename])) :
                         df_read' = df
              ELSE /\ read_scanned' = <<>>
                   /\ df_read' = <<>>
    /\ UNCHANGED <<cfg_pretty, umls_dir, df_concept_concept_rels, df_forward,
                   df_concept_code_rels, df_semantic_definitions, list_nodes, list_rels,
                   calls, pc>>
    /\ UNCHANGED <<cfg_keys, umls_exists, io_done, wl_call, prev_run>>
    /\ UNCHANGED stdvars
    /\ UNCHANGED timervars

\* one call with any options on a file that is read without clean_file
GetUmlsFile ==
    /\ read_call = NoCall
    /\ \E filename \in FileNames \ CleanedNames, suppress \in BOOLEAN, english \in BOOLEAN,
          curver \in BOOLEAN, n_rows \in {NoLimit, 1} :
          GetUmlsFileCall(filename, suppress, english, curver, n_rows, FALSE)

NextRead == GetUmlsFile

SpecRead == InitRead /\ [][NextRead]_vars

\* a call with the default options (suppress, english and curver enabled),
\* with or without n_rows, and with clean_file for the files read that way
GetUmlsFileDefaults ==
    \E filename \in FileNames, n_rows \in {NoLimit, 1}, clean_file \in BOOLEAN :
       /\ clean_file => filename \in CleanedNames
       /\ GetUmlsFileCall(filename, TRUE, TRUE, TRUE, n_rows, clean_file)

\* between two calls, a source file is replaced by another release of it
ReplaceSourceFile ==
    /\ abort = NoAbort
    /\ \E f \in CleanedNames \cap umls_exists :
          \E v \in Versions[f] \ {umls_dir[f]} :
             umls_dir' = [umls_dir EXCEPT ![f] = v]
    /\ UNCHANGED <<cfg_pretty, output_dir, df_concept_concept_rels, df_forward,
                   df_concept_code_rels, df_semantic_definitions, list_nodes, list_rels,
                   calls, pc>>
    /\ UNCHANGED envvars
    /\ UNCHANGED callvars
    /\ UNCHANGED stdvars
    /\ UNCHANGED timervars

\* between two calls, a source file is removed
RemoveSourceFile ==
    /\ abort = NoAbort
    /\ \E f \in CleanedNames \cap umls_exists :
          /\ umls_exists' = umls_exists \ {f}
          /\ umls_dir' = [umls_dir EXCEPT ![f] = <<>>]
    /\ UNCHANGED <<cfg_pretty, output_dir, df_concept_concept_rels, df_forward,
                   df_concept_code_rels, df_semantic_definitions, list_nodes, list_rels,
                   calls, pc>>
    /\ UNCHANGED <<cfg_keys, io_done, abort>>
    /\ UNCHANGED callvars
    /\ UNCHANGED stdvars
    /\ UNCHANGED timervars

NextClean == GetUmlsFileDefaults \/ ReplaceSourceFile \/ RemoveSourceFile

SpecClean == InitClean /\ [][NextClean]_vars

(***************************************************************************)
(* Claims about ubkg_standardize.py (checked under SpecStd)                *)
(***************************************************************************)

\* the nine substitutions applied to every occurrence, in the documented order
SubstituteAll(s) ==
    LET r1 == str_replace_all(s,  ",", <<"_">>)
        r2 == str_replace_all(r1, "/", <<"_">>)
        r3 == str_replace_all(r2, " ", <<"_">>)
        r4 == str_replace_all(r3, "<", <<"_", "_">>)
        r5 == str_replace_all(r4, ">", <<"_">>)
        r6 == str_replace_all(r5, "+", <<"-">>)
        r7 == str_replace_all(r6, "*", <<"-">>)
        r8 == str_replace_all(r7, "&", <<".">>)
        r9 == str_replace_all(r8, "#", <<".">>)
    IN  r9

\* C5: after standardize_codeid the code id contains none of the nine special
\* characters, however many times each occurred in the input.
C5_NoSpecialCharLeft ==
    stdpc = "standardized" => Range(codeid) \cap SpecialChars = {}

\* C6: an id with at most two ':'-segments (also one without any ':') is not
\* collapsed: the result is the input with only the substitutions applied.
C6_NoCollapseUpToTwoSegments ==
    (stdpc = "standardized" /\ Len(str_split(codeid_in, ":")) <= 2)
        => codeid = SubstituteAll(codeid_in)

\* C24: standardize_codeid applied to one of its own results that contains
\* none of the nine special characters returns that result.
C24_IdempotentOnCleanOutputs ==
    (stdpc = "standardized" /\ n_std >= 2 /\ Range(codeid_in) \cap SpecialChars = {})
        => codeid = codeid_in

\* the second application was given a result in which the first had replaced
\* a special character
C24_Witness ==
    /\ stdpc = "standardized"
    /\ n_std = 2
    /\ Range(codeid_in) \cap SpecialChars = {}
    /\ "_" \in Range(codeid_in)
    /\ codeid = codeid_in

\* text without ':' and without any special character
IsClean(s) == Range(s) \cap (SpecialChars \cup {":"}) = {}

\* CODE is S ":" C for the row's SAB S and a clean local code C
IsDoubledPrefix ==
    /\ SAB # NULLTEXT /\ CODE # NULLTEXT
    /\ IsClean(SAB)
    /\ Len(CODE) > Len(SAB)
    /\ SubSeq(CODE, 1, Len(SAB) + 1) = SAB \o <<":">>
    /\ IsClean(SubSeq(CODE, Len(SAB) + 2, Len(CODE)))

\* C7: for S and C without ':' and special characters,
\* standardize_codeid(create_codeid(S, S + ":" + C)) = S + ":" + C.
C7_DoubledPrefixCollapses ==
    (stdpc = "standardized" /\ IsDoubledPrefix) => codeid = CODE

\* "GO:GO:12345" has become "GO:12345"
C7_Witness ==
    /\ stdpc = "standardized"
    /\ IsDoubledPrefix
    /\ codeid_in = <<"G", "O", ":", "G", "O", ":", "1", "2", "3", "4", "5">>
    /\ codeid = <<"G", "O", ":", "1", "2", "3", "4", "5">>

\* one or more class characters, one ':', one or more class characters
IsCurieLike(s) ==
    \E k \in 2..(Len(s) - 1) :
        /\ s[k] = ":"
        /\ \A j \in (1..Len(s)) \ {k} : s[j] \in CurieClass

\* C8: standardize_term returns term + ":" exactly when the whole term is
\* CURIE-like, and the term unchanged otherwise.
C8_TermColonIffCurieLike ==
    stdpc = "term_done" =>
        STR = (IF IsCurieLike(STR_in) THEN STR_in \o <<":">> ELSE STR_in)

\* "HP:0001250" has become "HP:0001250:"
C8_Witness ==
    /\ stdpc = "term_done"
    /\ STR_in = <<"H", "P", ":", "0", "0", "0", "1", "2", "5", "0">>
    /\ STR = STR_in \o <<":">>

(***************************************************************************)
(* Claims about the pipeline (checked under Spec)                          *)
(***************************************************************************)

\* the content of the JSON output file
jkg == output_dir.content["jkg"]

\* the keys of the output document: the keys of its opening pieces
DocumentKeys == {jkg[i].key : i \in {j \in 1..Len(jkg) : jkg[j].t = "open"}}

\* C1: after write_nodes_list and then write_rels_list the output document
\* holds both keys, nodes and rels.
C1_BothArraysInDocument ==
    calls = <<"write_nodes_list", "write_rels_list">>
        => {"nodes", "rels"} \subseteq DocumentKeys

\* the inverse declarations of the MRDOC file of the run (in file order)
InverseDeclarations ==
    inverse_rel_pairs(get_umls_file(umls_dir.MRDOC, "MRDOC", TRUE, TRUE, TRUE,
                                    NoLimit, columns.MRDOC))

\* the VALUE of the rows of df_forward
ForwardNames == {df_forward[i].VALUE : i \in 1..Len(df_forward)}

\* x is greater than y in byte order (a null is smaller than every string)
Greater(x, y) == x # NULL /\ (y = NULL \/ StrRank(x) > StrRank(y))

\* rela is the non-forward member of a declared pair: some declaration has it
\* as VALUE, and a greater VALUE occurs in the same pair group
IsNonForward(rela) ==
    \E i, j \in 1..Len(InverseDeclarations) :
        /\ InverseDeclarations[i].VALUE = rela
        /\ pair_group(InverseDeclarations[j]) = pair_group(InverseDeclarations[i])
        /\ Greater(InverseDeclarations[j].VALUE, rela)

\* C2: no row of df_concept_concept_rels carries the non-forward member of a
\* declared inverse pair as RELA.
C2_NonForwardExcluded ==
    pc # "new" =>
        \A i \in 1..Len(df_concept_concept_rels) :
            ~IsNonForward(df_concept_concept_rels[i].RELA)

\* the relation names that occur in the inverse-pair table
DeclaredNames ==
    {InverseDeclarations[i].VALUE : i \in 1..Len(InverseDeclarations)} \ {NULL}

\* the rows that reach the pair-resolution step, with the columns of the result
RowsBeforeResolution ==
    LET df == select(rels_of_english_sabs(umls_dir), colrels \cup {"rel_label"})
    IN  {df[i] : i \in 1..Len(df)}

\* C3: a row that reaches pair resolution with a RELA that does not occur in
\* the inverse-pair table (or with a null RELA) is in df_concept_concept_rels.
C3_PassThrough ==
    pc # "new" =>
        \A r \in RowsBeforeResolution :
            r.RELA \notin DeclaredNames
                => \E i \in 1..Len(df_concept_concept_rels) :
                       df_concept_concept_rels[i] = r

\* a relationship with a label that no inverse declaration names has passed,
\* while inverse declarations exist
C3_Witness ==
    /\ pc # "new"
    /\ DeclaredNames # {}
    /\ \E r \in RowsBeforeResolution :
          /\ r.RELA = "nerve_supply_of"
          /\ r.RELA \notin DeclaredNames
          /\ \E i \in 1..Len(df_concept_concept_rels) : df_concept_concept_rels[i] = r

\* the pair groups of the inverse declarations
PairGroups == {pair_group(InverseDeclarations[i]) : i \in 1..Len(InverseDeclarations)}

\* the VALUEs that occur in pair group g
GroupValues(g) ==
    {InverseDeclarations[i].VALUE :
        i \in {j \in 1..Len(InverseDeclarations) : pair_group(InverseDeclarations[j]) = g}}

\* C4: df_forward has exactly one row per pair group, its VALUE is the
\* greatest VALUE of the group, and the two directions of a pair are in the
\* same group.
C4_OneGreatestForwardPerGroup ==
    pc # "new" =>
        /\ \A g \in PairGroups :
              /\ Cardinality({i \in 1..Len(df_forward) : df_forward[i].pair_group = g}) = 1
              /\ \A i \in 1..Len(df_forward) :
                    df_forward[i].pair_group = g =>
                        /\ df_forward[i].VALUE \in GroupValues(g)
                        /\ \A v \in GroupValues(g) : ~Greater(v, df_forward[i].VALUE)
        /\ \A i \in 1..Len(df_forward) : df_forward[i].pair_group \in PairGroups
        /\ \A i, j \in 1..Len(InverseDeclarations) :
              (/\ InverseDeclarations[i].VALUE = InverseDeclarations[j].EXPL
               /\ InverseDeclarations[i].EXPL = InverseDeclarations[j].VALUE)
                  => pair_group(InverseDeclarations[i]) = pair_group(InverseDeclarations[j])

\* both directions of has_nerve_supply / nerve_supply_of are declared and
\* nerve_supply_of is the forward relationship of their group
C4_Witness ==
    /\ pc # "new"
    /\ GroupValues("has_nerve_supply~nerve_supply_of")
          = {"has_nerve_supply", "nerve_supply_of"}
    /\ \E i \in 1..Len(df_forward) :
          /\ df_forward[i].pair_group = "has_nerve_supply~nerve_supply_of"
          /\ df_forward[i].VALUE = "nerve_supply_of"

\* the nodes of list_nodes with the label list of a concept: the nodes built
\* by _get_concept_nodes_list are the only ones with a pref_term
ConceptNodes ==
    {list_nodes[i] :
        i \in {j \in 1..Len(list_nodes) :
                  "pref_term" \in DOMAIN list_nodes[j].properties}}

HasPreferredTerm(c) ==
    \E i \in 1..Len(df_concept_code_rels) :
        /\ df_concept_code_rels[i].CUI = c
        /\ df_concept_code_rels[i].ISPREF = "Y"
        /\ df_concept_code_rels[i].STT = "PF"
        /\ df_concept_code_rels[i].TS = "P"

\* c has a line in MRSTY
HasSemanticTypeRow(c) ==
    \E i \in 1..Len(umls_dir.MRSTY) : umls_dir.MRSTY[i].CUI = c

ConceptPositions ==
    {j \in 1..Len(list_nodes) : "pref_term" \in DOMAIN list_nodes[j].properties}

\* C19: no two concept nodes of the nodes array have the same properties.id.
C19_OneNodePerConcept ==
    \A i, j \in ConceptPositions :
        list_nodes[i].properties.id = list_nodes[j].properties.id => i = j

\* the semantic types of a concept in the order of the lines of MRSTY.RRF,
\* each once (an empty STY is null)
RECURSIVE EncounterOrder(_, _)
EncounterOrder(rows, c) ==
    IF rows = <<>> THEN <<>>
    ELSE LET before == EncounterOrder(SubSeq(rows, 1, Len(rows) - 1), c)
             last == rows[Len(rows)]
             sty == IF last.STY = "" THEN NULL ELSE last.STY
         IN  IF last.CUI = c /\ sty \notin Range(before)
             THEN Append(before, sty) ELSE before

\* C20: in every concept node the labels after "Concept" are the semantic
\* types of the concept, each once, in the order in which MRSTY lists them.
C20_LabelsInEncounterOrder ==
    \A i \in ConceptPositions :
        \A c \in CUIs :
            list_nodes[i].properties.id = "UMLS:" \o c =>
                Tail(list_nodes[i].labels) = EncounterOrder(umls_dir.MRSTY, c)

\* C17: a run that follows a run on the same input writes the same two
\* arrays, with the same records in the same order.
C17_SameOutputOnSameInput ==
    (prev_run.ran /\ Range(calls) = {"write_nodes_list", "write_rels_list"}) =>
        /\ list_nodes = prev_run.nodes
        /\ list_rels = prev_run.rels

\* the Rel_Label nodes of list_nodes, in the order of the list
RelLabelNodes == SelectSeq(list_nodes, LAMBDA n : n.labels = <<"Rel_Label">>)

\* the relation labels of df_concept_concept_rels (the relationships after
\* pair resolution)
RelLabels == {df_concept_concept_rels[i].rel_label : i \in 1..Len(df_concept_concept_rels)}

\* C22: the Rel_Label nodes are the distinct relation labels of
\* df_concept_concept_rels, one node each, in ascending order; so every edge
\* has its label in exactly one Rel_Label node and every Rel_Label node is the
\* label of an edge.
C22_OneRelLabelNodePerLabel ==
    /\ "write_nodes_list" \in Range(calls) =>
          /\ {RelLabelNodes[i].properties.rel_label : i \in 1..Len(RelLabelNodes)} = RelLabels
          /\ \A i \in 1..Len(RelLabelNodes) :
                /\ RelLabelNodes[i].properties.id
                      = "UMLS:" \o RelLabelNodes[i].properties.rel_label
                /\ i > 1 => StrLess(RelLabelNodes[i - 1].properties.rel_label,
                                    RelLabelNodes[i].properties.rel_label)
    /\ Range(calls) = {"write_nodes_list", "write_rels_list"} =>
          /\ \A e \in 1..Len(list_rels) :
                Cardinality({i \in 1..Len(RelLabelNodes) :
                               RelLabelNodes[i].properties.rel_label = list_rels[e].label}) = 1
          /\ \A i \in 1..Len(RelLabelNodes) :
                \E e \in 1..Len(list_rels) :
                    list_rels[e].label = RelLabelNodes[i].properties.rel_label

\* both arrays are written, with two relation labels and two edges that
\* share a label
C22_Witness ==
    /\ Range(calls) = {"write_nodes_list", "write_rels_list"}
    /\ Len(RelLabelNodes) = 2
    /\ \E e, f \in 1..Len(list_rels) : e # f /\ list_rels[e].label = list_rels[f].label

\* the ids of the concept nodes of list_nodes
ConceptIds == {n.properties.id : n \in ConceptNodes}

\* C26: when both arrays are written, the start and the end of every edge
\* are ids of concept nodes of the nodes array.
C26_EdgesReferToConceptNodes ==
    Range(calls) = {"write_nodes_list", "write_rels_list"} =>
        \A e \in 1..Len(list_rels) :
            /\ list_rels[e].start.properties.id \in ConceptIds
            /\ list_rels[e]["end"].properties.id \in ConceptIds

\* C27: df_concept_concept_rels holds no row twice.
C27_NoIdenticalEdges ==
    \A i, j \in 1..Len(df_concept_concept_rels) :
        df_concept_concept_rels[i] = df_concept_concept_rels[j] => i = j

\* the relation names in inverse_relationships.csv
InverseNames ==
    LET csv == output_dir.content["inverse_relationships.csv"]
    IN  {csv[i].VALUE : i \in 1..Len(csv)} \ {NULL}

\* C25: no relation name is both the VALUE of a row of df_forward and a line
\* of inverse_relationships.csv.
C25_ForwardAndInverseDisjoint ==
    pc # "new" => (ForwardNames \ {NULL}) \cap InverseNames = {}

CurrentEnglishSources ==
    {umls_dir.MRSAB[i].RSAB :
        i \in {j \in 1..Len(umls_dir.MRSAB) :
                  umls_dir.MRSAB[j].LAT = "ENG" /\ umls_dir.MRSAB[j].CURVER = "Y"}}

\* C30: the sab of every edge is not null and is the RSAB of an English,
\* current line of MRSAB.RRF; a relationship of any other source gives no edge.
C30_EdgeSabIsRegisteredSource ==
    "write_rels_list" \in Range(calls) =>
        \A e \in 1..Len(list_rels) :
            /\ list_rels[e].properties.sab # NULL
            /\ list_rels[e].properties.sab \in CurrentEnglishSources

\* an edge is written from a file that also holds a relationship of a French
\* source and one without a source
C30_Witness ==
    /\ "write_rels_list" \in Range(calls)
    /\ list_rels # <<>>
    /\ \E i, j \in 1..Len(umls_dir.MRREL) :
          /\ umls_dir.MRREL[i].SAB = ""
          /\ umls_dir.MRREL[j].SAB = "MSHFRE"

\* the line of MRREL.RRF is not suppressed, its source is an English, current
\* source of MRSAB.RRF, and its RELA is not the non-forward member of a pair
IsEligibleLine(r) ==
    /\ r.SUPPRESS = "N"
    /\ r.SAB \in CurrentEnglishSources
    /\ ~IsNonForward(IF r.RELA = "" THEN NULL ELSE r.RELA)

\* the edge of a line of MRREL.RRF
EdgeOfLine(r) ==
    [label |-> IF r.RELA = "" THEN r.REL ELSE r.RELA,
     end |-> [properties |-> [id |-> "UMLS:" \o r.CUI1]],
     properties |-> [sab |-> r.SAB],
     start |-> [properties |-> [id |-> "UMLS:" \o r.CUI2]]]

\* C29: after write_rels_list, every eligible line of MRREL.RRF has its edge
\* in the rels array, whatever its position in the file.
C29_EveryEligibleLineHasEdge ==
    "write_rels_list" \in Range(calls) =>
        \A i \in 1..Len(umls_dir.MRREL) :
            IsEligibleLine(umls_dir.MRREL[i]) =>
                \E e \in 1..Len(list_rels) : list_rels[e] = EdgeOfLine(umls_dir.MRREL[i])

(***************************************************************************)
(* Claims about UbkgTimer (checked under SpecTimer)                        *)
(***************************************************************************)

\* C23: once stop() has returned, the timer thread has ended, and no write to
\* the display has come after pbar.close().
C23_StoppedWhenStopReturns ==
    /\ caller_pc = "returned" => timer_pc = "ended"
    /\ pbar.late_writes = 0

(***************************************************************************)
(* Claims about the configuration and the input files of a run             *)
(***************************************************************************)

\* the file operations that scan an input table or write a cache or artifact
TableIO == {e \in io_done : e.op \in {"scan", "scan_clean", "write_clean", "write_csv",
                                      "write_json"}}

\* C15: when a missing configuration key terminates the run, no input table
\* has been scanned and no cache or artifact file has been written.
C15_ConfigAbortBeforeTableIO ==
    abort.what = "config" => TableIO = {}

(***************************************************************************)
(* Claims about write_list (checked under SpecWriteList)                   *)
(***************************************************************************)

\* the pieces between the opening and the closing piece of a file
Between(content) == SubSeq(content, 2, Len(content) - 1)

\* one JSON object with one key whose value is an array: the opening piece,
\* the items separated by commas, the closing piece
IsDocument(content) ==
    /\ Len(content) >= 2
    /\ content[1].t = "open"
    /\ content[Len(content)].t = "close"
    /\ LET mid == Between(content)
       IN  /\ mid = <<>> \/ Len(mid) % 2 = 1
           /\ \A i \in 1..Len(mid) :
                  mid[i].t = (IF i % 2 = 1 THEN "item" ELSE "comma")

\* the elements of the array of a document, in order
ArrayElements(content) ==
    LET items == SelectSeq(Between(content), LAMBDA x : x.t = "item")
    IN  [i \in 1..Len(items) |-> items[i].node]

\* C11: after write_list(list_content, keyname, mode='w') the file is one JSON
\* object with the single key keyname, whose array holds the items of
\* list_content in list order, separated by commas; also for the empty list
\* and for items that are str.
C11_FileIsDocumentOfList ==
    wl_call.mode = "w" =>
        /\ IsDocument(jkg)
        /\ jkg[1].key = wl_call.keyname
        /\ ArrayElements(jkg) = wl_call.list_content

(***************************************************************************)
(* Claims about get_umls_file (checked under SpecRead and SpecClean)       *)
(***************************************************************************)

\* the last get_umls_file call returned a frame
Returned == read_call # NoCall /\ abort = NoAbort

\* the declared columns of the file of the last call
ReadColumns == columns[read_call.filename]

\* an option of the last call is enabled whose column the file does not have
AbsentColumnOption ==
    \/ read_call.suppress /\ "SUPPRESS" \notin ReadColumns
    \/ read_call.english /\ "LAT" \notin ReadColumns
    \/ read_call.curver /\ "CURVER" \notin ReadColumns

\* the row passes every enabled filter whose column the file has
PassesPresentFilters(r) ==
    /\ (read_call.suppress /\ "SUPPRESS" \in ReadColumns)
           => (r.SUPPRESS # NULL /\ r.SUPPRESS # "O")
    /\ (read_call.english /\ "LAT" \in ReadColumns) => r.LAT = "ENG"
    /\ (read_call.curver /\ "CURVER" \in ReadColumns) => r.CURVER = "Y"

\* C12: a call with an option enabled whose column the file lacks raises no
\* error, and returns exactly the scanned rows that pass the other enabled
\* filters: the option drops no row.
C12_AbsentColumnFilterIsNoOp ==
    (read_call # NoCall /\ AbsentColumnOption /\ read_source # Missing) =>
        /\ abort = NoAbort
        /\ Range(df_read) = {r \in Range(read_scanned) : PassesPresentFilters(r)}

\* a call on MRREL (no LAT, no CURVER) with english and curver enabled has
\* returned rows, after the suppress filter dropped one
C12_Witness ==
    /\ Returned
    /\ read_call.filename = "MRREL"
    /\ read_call.suppress /\ read_call.english /\ read_call.curver
    /\ df_read # <<>>
    /\ Cardinality(Range(df_read)) < Cardinality(Range(read_scanned))

\* the scanned rows of the last call that pass the filters of the call, each
\* once: the rows are filtered first, then the duplicates are dropped
FilteredThenDeduplicated ==
    {r \in Range(read_scanned) : PassesPresentFilters(r)}

\* C21: the frame that get_umls_file builds (before the projection) holds
\* exactly the scanned rows that pass the applicable filters, and no row twice.
C21_DeduplicatedFilteredRows ==
    Returned =>
        /\ Range(df_read) = FilteredThenDeduplicated
        /\ Len(df_read) = Cardinality(FilteredThenDeduplicated)

\* a call has scanned the same line twice, with a filter that the line passes
C21_Witness ==
    /\ Returned
    /\ read_call.suppress /\ "SUPPRESS" \in ReadColumns
    /\ Len(read_scanned) > Cardinality(Range(read_scanned))
    /\ Len(df_read) = 1

\* C13: with suppress enabled on a file with a SUPPRESS column, every
\* returned row has the flag N (not suppressed).
C13_OnlyNotSuppressedRows ==
    (Returned /\ read_call.suppress /\ "SUPPRESS" \in ReadColumns) =>
        \A i \in 1..Len(df_read) : df_read[i].SUPPRESS = "N"

\* C14: a call for an input file that does not exist terminates the process
\* and the path of the file is reported; no frame is returned.
C14_MissingFileAborts ==
    (read_call # NoCall /\ read_source = Missing) =>
        /\ abort.what = "not_found"
        /\ abort.path = resolved_path(read_call.filename)

\* C16: a cleaned copy, once it exists, is the source as it was when the copy
\* was made, without the double quotes, whatever was read or changed since.
C16_CleanedCopyKept ==
    \A f \in CleanedNames :
        f \in output_dir.exists =>
            output_dir.content[f] = clean_lines(cleaned_from[f], f)

\* a call with clean_file=True has returned the rows of a cleaned copy that
\* was made from another content than the source had at the call
C16_Witness ==
    /\ Returned
    /\ read_call.clean_file
    /\ read_source # Missing
    /\ read_source # cleaned_from[read_call.filename]
    /\ read_scanned = scan_csv(output_dir.content[read_call.filename],
                               read_call.filename, read_call.n_rows)
    /\ read_scanned # scan_csv(clean_lines(read_source, read_call.filename),
                               read_call.filename, read_call.n_rows)

====
